---- MODULE Spec2Model ----
(***************************************************************************)
(* Model of the liqo-security-engine policy compiler and reconciler.       *)
(*                                                                         *)
(* Go strings that the code formats, slices or compares by prefix          *)
(* (namespaces, cluster IDs, set names, match values, CIDRs, rule names)   *)
(* are sequences of one-character strings, so that fmt.Sprintf is          *)
(* concatenation and a prefix test is a SubSeq.  Enumerated values that    *)
(* the code only compares for equality (actions, resource groups, match    *)
(* positions) are TLA+ strings.  A Go pointer is a sequence of length at   *)
(* most one: <<>> is nil, <<v>> points at v.                               *)
(***************************************************************************)
EXTENDS Integers, Sequences, FiniteSets, TLC

VARIABLES
    policies,   \* PeeringConnectivity objects in the store
    fwcs,       \* FirewallConfiguration objects in the store
    pods,       \* Pod objects in the store
    networks,   \* ipam Network objects in the store
    nsos,       \* namespaces holding a NamespaceOffloading object
    last,       \* outcome of the Reconcile pass that has just ended, if any
    forged,     \* result of the last direct call of the compiler
    queue,      \* reconcile requests waiting in the controller's work queue
    pass        \* the Reconcile pass under way, when its steps are told apart

vars == <<policies, fwcs, pods, networks, nsos, last, forged, queue, pass>>

-----------------------------------------------------------------------------
\* Bounds of the model.

MaxRules == 2        \* longest rule list a Policy holds
MaxPods == 2         \* number of pod identities in the store
MaxGeneration == 2   \* highest metadata.generation a Policy reaches
MaxIDLen == 3        \* longest cluster ID handed to the name helpers

-----------------------------------------------------------------------------
\* Pointers and small helpers.

Nil == <<>>
Ptr(v) == <<v>>
Deref(p) == p[1]

Range(s) == {s[i] : i \in 1..Len(s)}

SeqsUpTo(S, n) == UNION {[1..k -> S] : k \in 0..n}

\* every enumeration order of a finite set (the iteration orders of a Go map)
RECURSIVE Orders(_)
Orders(S) ==
    IF S = {} THEN {<<>>}
    ELSE UNION {{<<x>> \o rest : rest \in Orders(S \ {x})} : x \in S}

\* strconv of a non-negative integer, as fmt's %d prints it
Digits == <<"0", "1", "2", "3", "4", "5", "6", "7", "8", "9">>
RECURSIVE Itoa(_)
Itoa(n) ==
    IF n < 10 THEN <<Digits[n + 1]>>
    ELSE Itoa(n \div 10) \o <<Digits[(n % 10) + 1]>>

-----------------------------------------------------------------------------
\* String constants of the program.

TenantNamePrefix == <<"l","i","q","o","-","t","e","n","a","n","t">>
localPodCIDRNetworkName == <<"p","o","d","-","c","i","d","r">>
localPodCIDRNetworkNamespace == <<"l","i","q","o">>
fabricResourceNameSuffix == <<"s","e","c","u","r","i","t","y","-","f","a","b","r","i","c">>
fabricTableName == <<"c","l","u","s","t","e","r","-","s","e","c","u","r","i","t","y">>
fabricChainName == <<"c","l","u","s","t","e","r","-","s","e","c","u","r","i","t","y","-","f","i","l","t","e","r">>
fabricChainPriority == 200
BaselineRuleName == <<"a","l","l","o","w","-","e","s","t","a","b","l","i","s","h","e","d","-","r","e","l","a","t","e","d">>
RuleNamePrefix == <<"a","l","l","o","w","e","d","-","t","r","a","f","f","i","c","-">>

ActionAllow == "allow"
ActionDeny == "deny"
ActionAccept == "accept"
ActionDrop == "drop"
MatchPositionSrc == "src"
MatchPositionDst == "dst"
MatchOperationEq == "eq"

ResourceGroupLocalCluster == "local-cluster"
ResourceGroupRemoteCluster == "remote-cluster"
ResourceGroupOffloaded == "offloaded"
ResourceGroupVcLocal == "vc-local"
ResourceGroupVcRemote == "vc-remote"
ResourceGroupPrivateSubnets == "private-subnets"

\* error values; ErrNil is Go's nil error
ErrNil == "nil"
ErrNotFound == "not found"
ErrParty == "party must specify either a resource group or a namespace"
ErrPanic == "panic: nil function call"
ErrGet == "unable to get the PeeringConnectivity"
\* the API server's answer to an Update carrying a stale resourceVersion
ErrConflict == "the object has been modified"

-----------------------------------------------------------------------------
\* Collaborator store reads.

\* cl.List returns the pods in the store's key order
RECURSIVE SortById(_)
SortById(S) ==
    IF S = {} THEN <<>>
    ELSE LET m == CHOOSE p \in S : \A q \in S : p.Id <= q.Id
         IN  <<m>> \o SortById(S \ {m})

\* cl.List with a selector: the selected pods of the store, in key order
ListPods(selected) == SortById(pods \cap selected)

GetClusterNamespace(clusterID) == TenantNamePrefix \o <<"-">> \o clusterID

\* the cluster ID is taken to be what follows the last hyphen
ExtractClusterIDAfterLastHyphen(namespace) ==
    LET prefix == TenantNamePrefix \o <<"-">>
        hyphens == {i \in 1..Len(namespace) : namespace[i] = "-"}
        cut == CHOOSE i \in hyphens : \A j \in hyphens : j <= i
    IN  IF Len(namespace) <= Len(prefix) \/ SubSeq(namespace, 1, Len(prefix)) # prefix
        THEN [err |-> "namespace does not have the expected prefix", clusterID |-> <<>>]
        ELSE [err |-> ErrNil, clusterID |-> SubSeq(namespace, cut + 1, Len(namespace))]

\* the length test admits the prefix alone
ExtractClusterIDEmptyAllowed(namespace) ==
    LET prefix == TenantNamePrefix \o <<"-">>
    IN  IF Len(namespace) < Len(prefix) \/ SubSeq(namespace, 1, Len(prefix)) # prefix
        THEN [err |-> "namespace does not have the expected prefix", clusterID |-> <<>>]
        ELSE [err |-> ErrNil, clusterID |-> SubSeq(namespace, Len(prefix) + 1, Len(namespace))]

\* the prefix is trimmed without testing that it is there
ExtractClusterIDTrimPrefix(namespace) ==
    LET prefix == TenantNamePrefix \o <<"-">>
    IN  IF Len(namespace) >= Len(prefix) /\ SubSeq(namespace, 1, Len(prefix)) = prefix
        THEN [err |-> ErrNil, clusterID |-> SubSeq(namespace, Len(prefix) + 1, Len(namespace))]
        ELSE [err |-> ErrNil, clusterID |-> namespace]

ExtractClusterID(namespace) ==
    LET prefix == TenantNamePrefix \o <<"-">>
    IN  IF Len(namespace) <= Len(prefix) \/ SubSeq(namespace, 1, Len(prefix)) # prefix
        THEN [err |-> "namespace does not have the expected prefix", clusterID |-> <<>>]
        ELSE [err |-> ErrNil, clusterID |-> SubSeq(namespace, Len(prefix) + 1, Len(namespace))]

GetNetwork(namespace, name) ==
    LET found == {n \in networks : n.Namespace = namespace /\ n.Name = name}
    IN  IF found = {} THEN [err |-> ErrNotFound, network |-> Nil]
        ELSE [err |-> ErrNil, network |-> Ptr(CHOOSE n \in found : TRUE)]

GetCurrentClusterPodCIDR ==
    LET got == GetNetwork(localPodCIDRNetworkNamespace, localPodCIDRNetworkName)
    IN  IF got.err # ErrNil THEN [err |-> got.err, cidr |-> <<>>]
        ELSE [err |-> ErrNil, cidr |-> Deref(got.network).SpecCIDR]

\* the Network of the local pod CIDR is read in place of the peer's
GetRemoteClusterPodCIDRFromLocal(clusterID) == GetCurrentClusterPodCIDR

\* a failed Get is swallowed: the CIDR comes back empty with a nil error
GetRemoteClusterPodCIDRSwallowed(clusterID) ==
    LET got == GetNetwork(GetClusterNamespace(clusterID), clusterID \o <<"-","p","o","d">>)
    IN  IF got.err # ErrNil THEN [err |-> ErrNil, cidr |-> <<>>]
        ELSE [err |-> ErrNil, cidr |-> Deref(got.network).StatusCIDR]

GetRemoteClusterPodCIDR(clusterID) ==
    LET got == GetNetwork(GetClusterNamespace(clusterID), clusterID \o <<"-","p","o","d">>)
    IN  IF got.err # ErrNil THEN [err |-> got.err, cidr |-> <<>>]
        ELSE [err |-> ErrNil, cidr |-> Deref(got.network).StatusCIDR]

GetPodsOffloadedToProvider(providerClusterID) ==
    LET podList == ListPods({p \in pods : p.LocalPod})
    IN  SelectSeq(podList, LAMBDA p : p.NodeName = providerClusterID)

GetPodsFromConsumer(consumerClusterID) ==
    ListPods({p \in pods : p.Origin = Ptr(consumerClusterID)})

\* the NamespaceOffloading list, in the store's key order
RECURSIVE SortNamespaces(_, _)
SortNamespaces(S, order) ==
    IF order = <<>> THEN <<>>
    ELSE (IF Head(order) \in S THEN <<Head(order)>> ELSE <<>>)
         \o SortNamespaces(S, Tail(order))

RECURSIVE PodsOfNamespaces(_)
PodsOfNamespaces(namespaceList) ==
    IF namespaceList = <<>> THEN <<>>
    ELSE ListPods({p \in pods : p.Namespace = Head(namespaceList) /\ ~p.LocalPod})
         \o PodsOfNamespaces(Tail(namespaceList))

GetPodsInNamespace(namespace) ==
    ListPods({p \in pods : p.Namespace = namespace /\ ~p.LocalPod})

\* pods without an IP are not skipped
ForgePodIpsSetKeepEmpty(setName, podList) ==
    [Name |-> setName, KeyType |-> "ipAddr",
     Elements |-> [i \in 1..Len(podList) |-> [Key |-> podList[i].PodIP]]]

ForgePodIpsSet(setName, podList) ==
    LET RECURSIVE Elements(_)
        Elements(ps) ==
            IF ps = <<>> THEN <<>>
            ELSE IF Head(ps).PodIP = <<>> THEN Elements(Tail(ps))
            ELSE <<[Key |-> Head(ps).PodIP]>> \o Elements(Tail(ps))
    IN  [Name |-> setName, KeyType |-> "ipAddr", Elements |-> Elements(podList)]

-----------------------------------------------------------------------------
\* Names and addresses the model draws objects from.

ClusterC1 == <<"c","1">>
NsOne == <<"n","s","1">>
NsTwo == <<"n","s","2">>
\* workload namespaces, in the store's key order
NamespaceOrder == <<NsOne, NsTwo>>
LocalCIDR == <<"1","0",".","1","/","1","6">>
RemoteCIDR == <<"1","0",".","2","/","1","6">>

GetPodsInOffloadedNamespaces ==
    PodsOfNamespaces(SortNamespaces(nsos, NamespaceOrder))

-----------------------------------------------------------------------------
\* Resource group resolver table.

IPMatch(value, position) ==
    [IP |-> Ptr([Value |-> value, Position |-> position]),
     CtState |-> Nil,
     Op |-> MatchOperationEq]

ResourceGroupKeys ==
    {ResourceGroupLocalCluster, ResourceGroupRemoteCluster, ResourceGroupOffloaded,
     ResourceGroupVcLocal, ResourceGroupVcRemote, ResourceGroupPrivateSubnets}

\* whether the group's MakeSets field is non-nil
HasMakeSets(rg) ==
    rg \in {ResourceGroupOffloaded, ResourceGroupVcLocal, ResourceGroupVcRemote,
            ResourceGroupPrivateSubnets}

\* faulty variant: the set is named differently from the "@offloaded" reference
SetNameOffloadedPods == <<"o","f","f","l","o","a","d","e","d","-","p","o","d","s">>

SetNameOffloaded == <<"o","f","f","l","o","a","d","e","d">>
SetNameVcLocal == <<"v","c","l","o","c","a","l">>
SetNameVcRemote == <<"v","c","r","e","m","o","t","e">>
SetNamePrivateSubnets == <<"p","r","i","v","a","t","e","s","u","b","n","e","t","s">>

PrivateSubnetsSet ==
    [Name |-> SetNamePrivateSubnets,
     KeyType |-> "ipAddr",
     Elements |-> <<[Key |-> <<"1","0",".","0",".","0",".","0","/","8">>],
                    [Key |-> <<"1","7","2",".","1","6",".","0",".","0","/","1","2">>],
                    [Key |-> <<"1","9","2",".","1","6","8",".","0",".","0","/","1","6">>]>>]

MakeSets(rg, clusterID) ==
    CASE rg = ResourceGroupOffloaded ->
            [err |-> ErrNil,
             sets |-> <<ForgePodIpsSet(SetNameOffloaded, GetPodsFromConsumer(clusterID))>>]
      [] rg = ResourceGroupVcLocal ->
            [err |-> ErrNil,
             sets |-> <<ForgePodIpsSet(SetNameVcLocal, GetPodsInOffloadedNamespaces)>>]
      [] rg = ResourceGroupVcRemote ->
            [err |-> ErrNil,
             sets |-> <<ForgePodIpsSet(SetNameVcRemote, GetPodsOffloadedToProvider(clusterID))>>]
      [] rg = ResourceGroupPrivateSubnets ->
            [err |-> ErrNil, sets |-> <<PrivateSubnetsSet>>]

CIDRMatchRule(got, position) ==
    IF got.err # ErrNil THEN [err |-> got.err, matchRules |-> <<>>]
    ELSE [err |-> ErrNil, matchRules |-> <<IPMatch(got.cidr, position)>>]

MakeMatchRule(rg, clusterID, position) ==
    CASE rg = ResourceGroupLocalCluster ->
            CIDRMatchRule(GetCurrentClusterPodCIDR, position)
      [] rg = ResourceGroupRemoteCluster ->
            CIDRMatchRule(GetRemoteClusterPodCIDR(clusterID), position)
      [] rg = ResourceGroupOffloaded ->
            [err |-> ErrNil, matchRules |-> <<IPMatch(<<"@","o","f","f","l","o","a","d","e","d">>, position)>>]
      [] rg = ResourceGroupVcLocal ->
            [err |-> ErrNil, matchRules |-> <<IPMatch(<<"@","v","c","l","o","c","a","l">>, position)>>]
      [] rg = ResourceGroupVcRemote ->
            [err |-> ErrNil, matchRules |-> <<IPMatch(<<"@","v","c","r","e","m","o","t","e">>, position)>>]
      [] rg = ResourceGroupPrivateSubnets ->
            [err |-> ErrNil, matchRules |->
                <<IPMatch(<<"@","p","r","i","v","a","t","e","s","u","b","n","e","t","s">>, position)>>]
      [] OTHER ->
            \* a group missing from the table yields the zero groupFuncts,
            \* whose MakeMatchRule is a nil function
            [err |-> ErrPanic, matchRules |-> <<>>]

-----------------------------------------------------------------------------
\* The rule compiler.

\* the cluster ID is left out of the name
ForgeFabricResourceNameNoID(clusterID) == fabricResourceNameSuffix

ForgeFabricResourceName(clusterID) == clusterID \o <<"-">> \o fabricResourceNameSuffix

ForgeFabricLabels(clusterID) ==
    [category |-> "fabric", subcategory |-> "all-nodes"]

NamespaceSetName(namespace) == <<"n","s","-">> \o namespace

\* faulty variant: a party without a group yields no match and no error
ForgeMatchRuleNoPartyCheck(party, clusterID, position, usedResourceGroups, usedNamespaces) ==
    IF party = Nil \/ Deref(party).Group = Nil
    THEN [err |-> ErrNil, matchRules |-> <<>>,
          usedResourceGroups |-> usedResourceGroups, usedNamespaces |-> usedNamespaces]
    ELSE LET made == MakeMatchRule(Deref(Deref(party).Group), clusterID, position)
         IN  [err |-> made.err, matchRules |-> made.matchRules,
              usedResourceGroups |-> usedResourceGroups \cup {Deref(Deref(party).Group)},
              usedNamespaces |-> usedNamespaces]

\* faulty variant: an absent party yields a fragment matching every address
ForgeMatchRuleAnyFragment(party, clusterID, position, usedResourceGroups, usedNamespaces) ==
    IF party = Nil
    THEN [err |-> ErrNil,
          matchRules |-> <<IPMatch(<<"0",".","0",".","0",".","0","/","0">>, position)>>,
          usedResourceGroups |-> usedResourceGroups, usedNamespaces |-> usedNamespaces]
    ELSE ForgeMatchRuleNoPartyCheck(party, clusterID, position,
                                    usedResourceGroups, usedNamespaces)

ForgeMatchRule(party, clusterID, position, usedResourceGroups, usedNamespaces) ==
    IF party = Nil
    THEN [err |-> ErrNil, matchRules |-> <<>>,
          usedResourceGroups |-> usedResourceGroups, usedNamespaces |-> usedNamespaces]
    ELSE IF Deref(party).Group # Nil
    THEN LET made == MakeMatchRule(Deref(Deref(party).Group), clusterID, position)
         IN  IF made.err # ErrNil
             THEN [err |-> made.err, matchRules |-> <<>>,
                   usedResourceGroups |-> usedResourceGroups,
                   usedNamespaces |-> usedNamespaces]
             ELSE [err |-> ErrNil, matchRules |-> made.matchRules,
                   usedResourceGroups |-> usedResourceGroups \cup {Deref(Deref(party).Group)},
                   usedNamespaces |-> usedNamespaces]
    ELSE IF Deref(party).Namespace # Nil
    THEN [err |-> ErrNil,
          matchRules |-> <<IPMatch(<<"@","n","s","-">> \o Deref(Deref(party).Namespace), position)>>,
          usedResourceGroups |-> usedResourceGroups,
          usedNamespaces |-> usedNamespaces \cup {Deref(Deref(party).Namespace)}]
    ELSE [err |-> ErrParty, matchRules |-> <<>>,
          usedResourceGroups |-> usedResourceGroups, usedNamespaces |-> usedNamespaces]

BaselineRule ==
    [Name |-> BaselineRuleName,
     Action |-> ActionAccept,
     Match |-> <<[IP |-> Nil,
                  CtState |-> Ptr([Value |-> <<"established", "related">>]),
                  Op |-> MatchOperationEq]>>]

\* faulty variant: every rule accepts
ForgeRuleActionAccept(action) == ActionAccept

\* the filter rule's action, from the rule's Action field
ForgeRuleAction(action) ==
    IF action # ActionAllow THEN ActionDrop ELSE ActionAccept

\* faulty variants of the append: one drops a rule equal in action and match
\* to an earlier one, one inserts right after the first rule, one prepends
AppendFilterRuleDedup(filterRules, filterRule) ==
    IF \E j \in 1..Len(filterRules) :
          /\ filterRules[j].Action = filterRule.Action
          /\ filterRules[j].Match = filterRule.Match
    THEN filterRules
    ELSE Append(filterRules, filterRule)

AppendFilterRuleSecond(filterRules, filterRule) ==
    <<Head(filterRules), filterRule>> \o Tail(filterRules)

AppendFilterRuleFirst(filterRules, filterRule) == <<filterRule>> \o filterRules

\* spec.Table.Chains[0].Rules.FilterRules = append(..., filterRule)
AppendFilterRule(filterRules, filterRule) == Append(filterRules, filterRule)

\* the loop over cfg.Spec.Rules, from 0-based index i on
RECURSIVE ForgeRulesLoop(_, _, _, _)
ForgeRulesLoop(rules, clusterID, i, acc) ==
    IF i >= Len(rules) THEN acc
    ELSE LET rule == rules[i + 1]
             src == ForgeMatchRule(rule.Source, clusterID, MatchPositionSrc,
                                   acc.usedResourceGroups, acc.usedNamespaces)
             dst == ForgeMatchRule(rule.Destination, clusterID, MatchPositionDst,
                                   src.usedResourceGroups, src.usedNamespaces)
             filterRule == [Name |-> RuleNamePrefix \o Itoa(i),
                            Action |-> ForgeRuleAction(rule.Action),
                            Match |-> src.matchRules \o dst.matchRules]
         IN  IF src.err # ErrNil THEN [acc EXCEPT !.err = src.err]
             ELSE IF dst.err # ErrNil THEN [acc EXCEPT !.err = dst.err]
             ELSE ForgeRulesLoop(rules, clusterID, i + 1,
                    [err |-> ErrNil,
                     FilterRules |-> AppendFilterRule(acc.FilterRules, filterRule),
                     usedResourceGroups |-> dst.usedResourceGroups,
                     usedNamespaces |-> dst.usedNamespaces])

\* faulty variant: the sets of table groups whether or not a rule used them
GroupSetsLoopEveryGroup(order, clusterID, sets) ==
    [err |-> ErrNil,
     sets |-> sets \o MakeSets(ResourceGroupOffloaded, clusterID).sets
                   \o MakeSets(ResourceGroupPrivateSubnets, clusterID).sets]

\* the loop over usedResourceGroups, in one iteration order of the map
RECURSIVE GroupSetsLoop(_, _, _)
GroupSetsLoop(order, clusterID, sets) ==
    IF order = <<>> THEN [err |-> ErrNil, sets |-> sets]
    ELSE IF HasMakeSets(Head(order))
    THEN LET made == MakeSets(Head(order), clusterID)
         IN  IF made.err # ErrNil THEN [err |-> made.err, sets |-> <<>>]
             ELSE GroupSetsLoop(Tail(order), clusterID, sets \o made.sets)
    ELSE GroupSetsLoop(Tail(order), clusterID, sets)

\* the loop over usedNamespaces, in one iteration order of the map
RECURSIVE NamespaceSetsLoop(_, _)
NamespaceSetsLoop(order, sets) ==
    IF order = <<>> THEN sets
    ELSE NamespaceSetsLoop(Tail(order),
            Append(sets, ForgePodIpsSet(NamespaceSetName(Head(order)),
                                        GetPodsInNamespace(Head(order)))))

\* faulty variant: an iteration that visits every key twice
MapRangeOrdersRepeating(keys) == {o \o o : o \in Orders(keys)}

\* the iteration orders Go may take over a map with these keys
MapRangeOrders(keys) == Orders(keys)

FabricSpec(filterRules, sets) ==
    [Table |->
        [Name |-> fabricTableName,
         Family |-> "IPV4",
         Sets |-> sets,
         Chains |-> <<[Name |-> fabricChainName,
                       Hook |-> "postrouting",
                       Policy |-> "accept",
                       Priority |-> fabricChainPriority,
                       Type |-> "filter",
                       Rules |-> [FilterRules |-> filterRules]]>>]]

\* The (spec, err) pairs a call may return: one for every iteration order of
\* the two maps.  spec is Nil when err is not ErrNil.
ForgeFabricSpec(cfg, clusterID) ==
    LET looped == ForgeRulesLoop(cfg.Spec.Rules, clusterID, 0,
                    [err |-> ErrNil,
                     FilterRules |-> <<BaselineRule>>,
                     usedResourceGroups |-> {},
                     usedNamespaces |-> {}])
    IN  IF looped.err # ErrNil THEN {[err |-> looped.err, spec |-> Nil]}
        ELSE {LET groupSets == GroupSetsLoop(rgOrder, clusterID, <<>>)
              IN  IF groupSets.err # ErrNil THEN [err |-> groupSets.err, spec |-> Nil]
                  ELSE [err |-> ErrNil,
                        spec |-> Ptr(FabricSpec(looped.FilterRules,
                                        NamespaceSetsLoop(nsOrder, groupSets.sets)))]
              : rgOrder \in MapRangeOrders(looped.usedResourceGroups),
                nsOrder \in MapRangeOrders(looped.usedNamespaces)}

-----------------------------------------------------------------------------
\* Objects the model draws its inputs from.

GroupParty(group) == Ptr([Group |-> Ptr(group), Namespace |-> Nil])
NamespaceParty(namespace) == Ptr([Group |-> Nil, Namespace |-> Ptr(namespace)])
\* parties the CRD validation would reject, should they reach the compiler
EmptyParty == Ptr([Group |-> Nil, Namespace |-> Nil])
BothParty == Ptr([Group |-> Ptr(ResourceGroupOffloaded), Namespace |-> Ptr(NsOne)])
UnknownGroupParty == GroupParty("leaf")

NewRule(action, source, destination) ==
    [Action |-> action, Source |-> source, Destination |-> destination]

RuleUniverse ==
    {NewRule(ActionAllow, GroupParty(ResourceGroupRemoteCluster), GroupParty(ResourceGroupOffloaded)),
     NewRule(ActionDeny, GroupParty(ResourceGroupOffloaded), Nil),
     NewRule("", Nil, Nil),
     NewRule(ActionAllow, NamespaceParty(NsOne), GroupParty(ResourceGroupPrivateSubnets)),
     NewRule(ActionDeny, GroupParty(ResourceGroupVcLocal), GroupParty(ResourceGroupVcRemote)),
     NewRule(ActionAllow, GroupParty(ResourceGroupLocalCluster), NamespaceParty(NsTwo)),
     NewRule(ActionAllow, EmptyParty, Nil),
     NewRule(ActionDeny, BothParty, Nil),
     NewRule(ActionAllow, Nil, UnknownGroupParty)}

RuleLists == SeqsUpTo(RuleUniverse, MaxRules)

PodIPOf(id) == <<"1","0",".","9",".","0",".">> \o Itoa(id)

\* the pod with identity id: an offloaded pod of consumer c1, a shadow pod
\* scheduled on the virtual node of provider c1, a plain pod, in turn
NewPod(id, podIP) ==
    CASE id % 3 = 1 ->
            [Id |-> id, Namespace |-> NsOne, LocalPod |-> FALSE,
             Origin |-> Ptr(ClusterC1), NodeName |-> <<"n","1">>, PodIP |-> podIP]
      [] id % 3 = 2 ->
            [Id |-> id, Namespace |-> NsTwo, LocalPod |-> TRUE,
             Origin |-> Nil, NodeName |-> ClusterC1, PodIP |-> podIP]
      [] OTHER ->
            [Id |-> id, Namespace |-> NsOne, LocalPod |-> FALSE,
             Origin |-> Nil, NodeName |-> <<"n","1">>, PodIP |-> podIP]

\* the pod populations: the first k pods, each with its IP, and the first
\* pod alone before it gets one
PodStores ==
    {{NewPod(id, PodIPOf(id)) : id \in 1..k} : k \in 0..MaxPods}
        \cup {{NewPod(1, <<>>)}}

LocalNetwork ==
    [Namespace |-> localPodCIDRNetworkNamespace, Name |-> localPodCIDRNetworkName,
     SpecCIDR |-> LocalCIDR, StatusCIDR |-> LocalCIDR]

PeerNetwork(clusterID) ==
    [Namespace |-> GetClusterNamespace(clusterID), Name |-> clusterID \o <<"-","p","o","d">>,
     SpecCIDR |-> RemoteCIDR, StatusCIDR |-> RemoteCIDR]

PolicyKeyC1 == [Namespace |-> GetClusterNamespace(ClusterC1), Name |-> ClusterC1]

NoCondition == [Status |-> "Unknown", Reason |-> "", Message |-> ""]

NewPolicy(key, rules, uid) ==
    [Name |-> key.Name, Namespace |-> key.Namespace, UID |-> uid, Generation |-> 1,
     Spec |-> [Rules |-> rules],
     Status |-> [Ready |-> NoCondition, ObservedGeneration |-> 0]]

NoLast == [result |-> "none"]

-----------------------------------------------------------------------------
\* Specification of the compiler alone: any Policy over any cluster state,
\* and a direct call of ForgeFabricSpec on it.

InitForge ==
    /\ \E rules \in RuleLists :
          policies = {NewPolicy(PolicyKeyC1, rules, 1)}
    /\ fwcs = {}
    /\ pods \in PodStores
    /\ networks \in {{LocalNetwork}, {LocalNetwork, PeerNetwork(ClusterC1)}}
    /\ nsos \in {{}, {NsOne}}
    /\ last = NoLast
    /\ forged = Nil
    /\ queue = {}
    /\ pass = Nil

ForgeCall ==
    /\ forged = Nil
    /\ \E cfg \in policies :
       \E out \in ForgeFabricSpec(cfg, ClusterC1) :
          forged' = Ptr([cfg |-> cfg, clusterID |-> ClusterC1,
                         err |-> out.err, spec |-> out.spec])
    /\ UNCHANGED <<policies, fwcs, pods, networks, nsos, last, queue, pass>>

NextForge == ForgeCall

SpecForge == InitForge /\ [][NextForge]_vars

-----------------------------------------------------------------------------
\* The reconciliation controller.

ConditionTypeReady == "Ready"
ReasonClusterIDError == "ClusterIDExtractionFailed"
ReasonFabricSyncFailed == "FabricSyncFailed"
ReasonFabricSynced == "FabricSynced"
EventReasonReconcileError == "ReconcileError"
EventReasonSynced == "Synced"
OperationResultNone == "unchanged"
OperationResultCreated == "created"
OperationResultUpdated == "updated"

GetPolicy(key) == {p \in policies : p.Name = key.Name /\ p.Namespace = key.Namespace}
GetFwc(namespace, name) == {f \in fwcs : f.Namespace = namespace /\ f.Name = name}

\* the owner reference is never set
SetOwnerReferenceKept(cfg, ownerReferences) == ownerReferences

\* controllerutil.SetOwnerReference: the reference to an owner of the same
\* kind and name is replaced, whatever its UID
SetOwnerReference(cfg, ownerReferences) ==
    {r \in ownerReferences : r.Name # cfg.Name}
        \cup {[Kind |-> "PeeringConnectivity", Name |-> cfg.Name, UID |-> cfg.UID]}

\* the Sets of the stored object are kept and the new ones added to them
MutateFabricMerge(obj, cfg, clusterID, spec) ==
    [obj EXCEPT !.Labels = ForgeFabricLabels(clusterID),
                !.Spec = IF obj.Spec.Table = Nil THEN spec
                         ELSE [spec EXCEPT !.Table.Sets = obj.Spec.Table.Sets \o @],
                !.OwnerReferences = SetOwnerReference(cfg, @)]

\* the mutate closure handed to CreateOrUpdate, on a compile that succeeded
MutateFabric(obj, cfg, clusterID, spec) ==
    [obj EXCEPT !.Labels = ForgeFabricLabels(clusterID),
                !.Spec = spec,
                !.OwnerReferences = SetOwnerReference(cfg, @)]

\* faulty variant: the object as the closure left it when it failed, labels
\* set and spec not yet assigned, is written all the same
CreateOrUpdateWritesOnError(namespace, name, cfg, clusterID, out, conflict) ==
    LET existing == GetFwc(namespace, name)
        blank == [Name |-> name, Namespace |-> namespace, Labels |-> Nil,
                  Spec |-> [Table |-> Nil], OwnerReferences |-> {}]
        old == IF existing = {} THEN blank ELSE CHOOSE f \in existing : TRUE
    IN  IF out.err # ErrNil
        THEN [op |-> OperationResultNone, err |-> out.err,
              fwcs |-> (fwcs \ existing)
                          \cup {[old EXCEPT !.Labels = ForgeFabricLabels(clusterID),
                                            !.OwnerReferences = {}]}]
        ELSE LET new == MutateFabric(old, cfg, clusterID, Deref(out.spec))
             IN  IF existing # {} /\ new = old
                 THEN [op |-> OperationResultNone, err |-> ErrNil, fwcs |-> fwcs]
                 ELSE [op |-> IF existing = {} THEN OperationResultCreated
                              ELSE OperationResultUpdated,
                       err |-> ErrNil, fwcs |-> (fwcs \ existing) \cup {new}]

\* controllerutil.CreateOrUpdate of the fabric FirewallConfiguration, given
\* the (spec, err) pair the compiler returns inside the mutate closure;
\* conflict tells whether another writer touched the object between the Get
\* and the Update
CreateOrUpdate(namespace, name, cfg, clusterID, out, conflict) ==
    LET existing == GetFwc(namespace, name)
        blank == [Name |-> name, Namespace |-> namespace, Labels |-> Nil,
                  Spec |-> [Table |-> Nil], OwnerReferences |-> {}]
    IN  IF out.err # ErrNil
        THEN [op |-> OperationResultNone, err |-> out.err, fwcs |-> fwcs]
        ELSE IF existing = {}
        THEN [op |-> OperationResultCreated, err |-> ErrNil,
              fwcs |-> fwcs \cup {MutateFabric(blank, cfg, clusterID, Deref(out.spec))}]
        ELSE LET old == CHOOSE f \in existing : TRUE
                 new == MutateFabric(old, cfg, clusterID, Deref(out.spec))
             IN  IF new = old
                 THEN [op |-> OperationResultNone, err |-> ErrNil, fwcs |-> fwcs]
                 ELSE IF conflict
                 THEN [op |-> OperationResultNone, err |-> ErrConflict, fwcs |-> fwcs]
                 ELSE [op |-> OperationResultUpdated, err |-> ErrNil,
                       fwcs |-> (fwcs \ {old}) \cup {new}]

\* meta.SetStatusCondition on the Ready condition
SetStatusCondition(cfg, status, reason, message) ==
    [cfg EXCEPT !.Status.Ready = [Status |-> status, Reason |-> reason, Message |-> message]]

\* the generation is left as the last successful pass recorded it
ObserveGenerationSkipped(cfg) == cfg

\* cfg.Status.ObservedGeneration = cfg.Generation
ObserveGeneration(cfg) == [cfg EXCEPT !.Status.ObservedGeneration = cfg.Generation]

\* r.Status().Update(ctx, cfg)
StatusUpdate(old, cfg) == (policies \ {old}) \cup {cfg}

\* errors.IsNotFound never holds: every failed Get is reported
IsNotFoundNever(err) == FALSE

\* errors.IsNotFound
IsNotFound(err) == err = ErrNotFound

\* the Synced event is recorded whatever the upsert did
SyncedEventsAlways(fabricOp) == <<EventReasonSynced>>

\* the events of the end of a successful pass
SyncedEvents(fabricOp) ==
    IF fabricOp # OperationResultNone THEN <<EventReasonSynced>> ELSE <<>>

Reconcile(req, conflict) ==
    /\ LET found == GetPolicy(req)
       IN  IF found = {}
           THEN /\ last' = [req |-> req,
                            result |-> IF IsNotFound(ErrNotFound) THEN "ok" ELSE "error",
                            err |-> IF IsNotFound(ErrNotFound) THEN ErrNil ELSE ErrGet,
                            op |-> OperationResultNone, events |-> <<>>, found |-> FALSE,
                            before |-> {}]
                /\ UNCHANGED <<policies, fwcs>>
           ELSE LET cfg == CHOOSE p \in found : TRUE
                    extracted == ExtractClusterID(req.Namespace)
                IN  IF extracted.err # ErrNil
                    THEN /\ policies' = StatusUpdate(cfg,
                                SetStatusCondition(cfg, "False", ReasonClusterIDError,
                                                   extracted.err))
                         /\ last' = [req |-> req, result |-> "error", err |-> extracted.err,
                                     op |-> OperationResultNone,
                                     events |-> <<EventReasonReconcileError>>,
                                     found |-> TRUE, before |-> {}]
                         /\ UNCHANGED fwcs
                    ELSE \E out \in ForgeFabricSpec(cfg, extracted.clusterID) :
                         LET upsert == CreateOrUpdate(req.Namespace,
                                          ForgeFabricResourceName(extracted.clusterID),
                                          cfg, extracted.clusterID, out, conflict)
                         IN  IF upsert.err = ErrPanic
                             THEN \* the pass unwinds: no status write, no event
                                  /\ last' = [req |-> req, result |-> "panic",
                                              err |-> upsert.err,
                                              op |-> OperationResultNone,
                                              events |-> <<>>, found |-> TRUE,
                                              before |-> {}]
                                  /\ fwcs' = upsert.fwcs
                                  /\ UNCHANGED policies
                             ELSE IF upsert.err # ErrNil
                             THEN /\ policies' = StatusUpdate(cfg,
                                        SetStatusCondition(cfg, "False",
                                            ReasonFabricSyncFailed, upsert.err))
                                  /\ last' = [req |-> req, result |-> "error",
                                              err |-> upsert.err,
                                              op |-> OperationResultNone,
                                              events |-> <<EventReasonReconcileError>>,
                                              found |-> TRUE,
                                              before |-> GetFwc(req.Namespace,
                                                  ForgeFabricResourceName(extracted.clusterID))]
                                  /\ fwcs' = upsert.fwcs
                             ELSE /\ fwcs' = upsert.fwcs
                                  /\ policies' = StatusUpdate(cfg,
                                        SetStatusCondition(
                                            ObserveGeneration(cfg),
                                            "True", ReasonFabricSynced,
                                            "FirewallConfiguration successfully synced"))
                                  /\ last' = [req |-> req, result |-> "ok", err |-> ErrNil,
                                              op |-> upsert.op,
                                              events |-> SyncedEvents(upsert.op),
                                              found |-> TRUE,
                                              before |-> GetFwc(req.Namespace,
                                                  ForgeFabricResourceName(extracted.clusterID))]
    /\ UNCHANGED <<pods, networks, nsos, forged>>

-----------------------------------------------------------------------------
\* The cluster around the controller: users editing Policies, the peer
\* announcing its pod CIDR, the garbage collector.

PolicyKeyBad == [Namespace |-> <<"d","e","f","a","u","l","t">>, Name |-> <<"x">>]
PolicyKeys == {PolicyKeyC1, PolicyKeyBad}

\* rules a Policy holds in the controller specification
PolicyRuleUniverse ==
    {NewRule(ActionAllow, GroupParty(ResourceGroupRemoteCluster), GroupParty(ResourceGroupOffloaded)),
     NewRule(ActionDeny, GroupParty(ResourceGroupPrivateSubnets), NamespaceParty(NsOne)),
     NewRule(ActionAllow, EmptyParty, Nil)}

PolicyRuleLists(key) ==
    IF key = PolicyKeyC1 THEN SeqsUpTo(PolicyRuleUniverse, MaxRules) ELSE {<<>>}

\* the UIDs stored objects bear or refer to
UsedUIDs ==
    {p.UID : p \in policies}
        \cup UNION {{r.UID : r \in f.OwnerReferences} : f \in fwcs}

\* the UID the API server gives a new object: one that no stored object
\* bears or refers to
FreshUID ==
    CHOOSE u \in 1..(Cardinality(UsedUIDs) + 1) :
       u \notin UsedUIDs /\ \A v \in 1..(u - 1) : v \in UsedUIDs

\* the specification follows one PeeringConnectivity at a time
PolicyCreate(key, rules) ==
    /\ policies = {}
    /\ policies' = policies \cup {NewPolicy(key, rules, FreshUID)}
    /\ last' = NoLast
    /\ UNCHANGED <<fwcs, pods, networks, nsos, forged>>

\* a spec change bumps metadata.generation and keeps the status
PolicyUpdate(key, rules) ==
    /\ \E old \in GetPolicy(key) :
          /\ old.Spec.Rules # rules
          /\ old.Generation < MaxGeneration
          /\ policies' = (policies \ {old})
                \cup {[old EXCEPT !.Spec.Rules = rules, !.Generation = @ + 1]}
    /\ last' = NoLast
    /\ UNCHANGED <<fwcs, pods, networks, nsos, forged>>

PolicyDelete(key) ==
    /\ GetPolicy(key) # {}
    /\ policies' = policies \ GetPolicy(key)
    /\ last' = NoLast
    /\ UNCHANGED <<fwcs, pods, networks, nsos, forged>>

\* the owner a reference names, by UID, in the namespace of the dependent
GetOwner(namespace, ref) ==
    {p \in policies : p.Namespace = namespace /\ p.UID = ref.UID}

\* owner-reference garbage collection of a FirewallConfiguration none of
\* whose owners exists any more
GarbageCollect ==
    /\ \E f \in fwcs :
          /\ f.OwnerReferences # {}
          /\ \A r \in f.OwnerReferences : GetOwner(f.Namespace, r) = {}
          /\ fwcs' = fwcs \ {f}
    /\ last' = NoLast
    /\ UNCHANGED <<policies, pods, networks, nsos, forged>>

NetworkCreate ==
    /\ PeerNetwork(ClusterC1) \notin networks
    /\ networks' = networks \cup {PeerNetwork(ClusterC1)}
    /\ last' = NoLast
    /\ UNCHANGED <<policies, fwcs, pods, nsos, forged>>

NetworkDelete ==
    /\ PeerNetwork(ClusterC1) \in networks
    /\ networks' = networks \ {PeerNetwork(ClusterC1)}
    /\ last' = NoLast
    /\ UNCHANGED <<policies, fwcs, pods, nsos, forged>>

\* the controller starts in a cluster that already runs one offloaded pod
Init ==
    /\ policies = {}
    /\ fwcs = {}
    /\ pods = {NewPod(1, PodIPOf(1))}
    /\ networks = {LocalNetwork}
    /\ nsos = {}
    /\ last = NoLast
    /\ forged = Nil
    /\ queue = {}
    /\ pass = Nil

\* Reconcile is called on the reconciler itself, as the tests do: no
\* manager runs and the work queue stays empty
Next ==
    \/ \E key \in PolicyKeys : \E rules \in PolicyRuleLists(key) :
          PolicyCreate(key, rules) /\ UNCHANGED <<queue, pass>>
    \/ \E key \in PolicyKeys : \E rules \in PolicyRuleLists(key) :
          PolicyUpdate(key, rules) /\ UNCHANGED <<queue, pass>>
    \/ \E key \in PolicyKeys : PolicyDelete(key) /\ UNCHANGED <<queue, pass>>
    \/ GarbageCollect /\ UNCHANGED <<queue, pass>>
    \/ NetworkCreate /\ UNCHANGED <<queue, pass>>
    \/ NetworkDelete /\ UNCHANGED <<queue, pass>>
    \/ \E req \in PolicyKeys : \E conflict \in BOOLEAN :
          Reconcile(req, conflict) /\ UNCHANGED <<queue, pass>>

Spec == Init /\ [][Next]_vars

-----------------------------------------------------------------------------
\* Specification of the life of the FirewallConfiguration: Policies that
\* compile and Policies that do not are created, edited, deleted and
\* reconciled in any order, next to a garbage collector that keeps running.

OwnerRuleLists ==
    {<<>>,
     <<NewRule(ActionDeny, GroupParty(ResourceGroupPrivateSubnets), NamespaceParty(NsOne))>>,
     <<NewRule(ActionAllow, Nil, GroupParty(ResourceGroupOffloaded))>>,
     <<NewRule(ActionDeny, GroupParty(ResourceGroupVcLocal), GroupParty(ResourceGroupVcRemote))>>,
     <<NewRule(ActionAllow, EmptyParty, Nil)>>}

NextOwner ==
    \/ \E key \in PolicyKeys : \E rules \in OwnerRuleLists :
          PolicyCreate(key, rules) /\ UNCHANGED <<queue, pass>>
    \/ \E key \in PolicyKeys : \E rules \in OwnerRuleLists :
          PolicyUpdate(key, rules) /\ UNCHANGED <<queue, pass>>
    \/ \E key \in PolicyKeys : PolicyDelete(key) /\ UNCHANGED <<queue, pass>>
    \/ GarbageCollect /\ UNCHANGED <<queue, pass>>
    \/ \E req \in PolicyKeys : \E conflict \in BOOLEAN :
          Reconcile(req, conflict) /\ UNCHANGED <<queue, pass>>

\* the garbage collector is a controller of its own: a FirewallConfiguration
\* it can delete does not wait for ever
SpecOwner ==
    Init /\ [][NextOwner]_vars /\ WF_vars(GarbageCollect /\ UNCHANGED <<queue, pass>>)

-----------------------------------------------------------------------------
\* Specification of the passes over one stored Policy whose rules read the
\* pod CIDR Networks or hold parties the CRD schema would turn away, in a
\* cluster where either Network may be missing.

PassRuleUniverse ==
    {NewRule(ActionAllow, GroupParty(ResourceGroupLocalCluster),
             GroupParty(ResourceGroupRemoteCluster)),
     NewRule(ActionDeny, Nil, GroupParty(ResourceGroupOffloaded)),
     NewRule(ActionAllow, BothParty, Nil),
     NewRule(ActionAllow, Nil, UnknownGroupParty)}

InitPass ==
    /\ \E rules \in SeqsUpTo(PassRuleUniverse, MaxRules) :
          policies = {NewPolicy(PolicyKeyC1, rules, 1)}
    /\ fwcs = {}
    /\ pods = {NewPod(1, PodIPOf(1))}
    /\ networks \in SUBSET {LocalNetwork, PeerNetwork(ClusterC1)}
    /\ nsos = {}
    /\ last = NoLast
    /\ forged = Nil
    /\ queue = {}
    /\ pass = Nil

NextPass ==
    \/ NetworkCreate /\ UNCHANGED <<queue, pass>>
    \/ NetworkDelete /\ UNCHANGED <<queue, pass>>
    \/ \E conflict \in BOOLEAN : Reconcile(PolicyKeyC1, conflict) /\ UNCHANGED <<queue, pass>>

SpecPass == InitPass /\ [][NextPass]_vars

-----------------------------------------------------------------------------
\* The mappers from watch events to reconcile requests.

NewRequest(name, namespace) == [Namespace |-> namespace, Name |-> name]

\* the origin-cluster label is looked at first
podEnqueuerOriginFirst(pod) ==
    IF pod.Origin # Nil
    THEN <<NewRequest(Deref(pod.Origin), GetClusterNamespace(Deref(pod.Origin)))>>
    ELSE IF pod.LocalPod /\ pod.NodeName # <<>>
    THEN <<NewRequest(pod.NodeName, GetClusterNamespace(pod.NodeName))>>
    ELSE <<>>

podEnqueuer(pod) ==
    IF pod.LocalPod
    THEN IF pod.NodeName = <<>> THEN <<>>
         ELSE <<NewRequest(pod.NodeName, GetClusterNamespace(pod.NodeName))>>
    ELSE IF pod.Origin # Nil
    THEN <<NewRequest(Deref(pod.Origin), GetClusterNamespace(Deref(pod.Origin)))>>
    ELSE <<>>

\* a namespace that names no cluster is not filtered out
networkEnqueuerEveryNamespace(network) ==
    IF network.Namespace = localPodCIDRNetworkNamespace THEN <<>>
    ELSE LET extracted == ExtractClusterID(network.Namespace)
         IN  <<NewRequest(extracted.clusterID, GetClusterNamespace(extracted.clusterID))>>

networkEnqueuer(network) ==
    IF network.Namespace = localPodCIDRNetworkNamespace THEN <<>>
    ELSE LET extracted == ExtractClusterID(network.Namespace)
         IN  IF extracted.err # ErrNil THEN <<>>
             ELSE <<NewRequest(extracted.clusterID,
                               GetClusterNamespace(extracted.clusterID))>>

\* r.Client.List of the PeeringConnectivity objects, in the store's key order
RECURSIVE SortByUID(_)
SortByUID(S) ==
    IF S = {} THEN <<>>
    ELSE LET m == CHOOSE p \in S : \A q \in S : p.UID <= q.UID
         IN  <<m>> \o SortByUID(S \ {m})

\* only the Policies of tenant namespaces are enqueued
allPeeringConnectivityEnqueuerTenantsOnly(obj) ==
    LET items == SelectSeq(SortByUID(policies),
                           LAMBDA ps : ExtractClusterID(ps.Namespace).err = ErrNil)
    IN  [i \in 1..Len(items) |-> NewRequest(items[i].Name, items[i].Namespace)]

allPeeringConnectivityEnqueuer(obj) ==
    LET items == SortByUID(policies)
    IN  [i \in 1..Len(items) |-> NewRequest(items[i].Name, items[i].Namespace)]

-----------------------------------------------------------------------------
\* Specification of the helpers called on their own: the name helpers, the
\* builder of pod IP Sets and the mappers of watch events are pure functions
\* of their arguments (and, for one mapper, of the stored Policies).

\* cluster IDs: the non-empty strings over a letter, a digit and the hyphen
ClusterIDs == UNION {[1..k -> {"c", "1", "-"}] : k \in 1..MaxIDLen}

\* namespaces that are not tenant namespaces
OtherNamespaces ==
    {<<>>,
     <<"d","e","f","a","u","l","t">>,
     <<"k","u","b","e","-","s","y","s","t","e","m","-","t","e","s","t">>,
     <<"l","i","q","o">>,
     <<"l","i","q","o","-","t","e","n","a","n","t">>,
     <<"l","i","q","o","-","t","e","n","a","n","t","-">>,
     <<"l","i","q","o","-","t","e","n","a","n","t","c","1">>,
     <<"x","l","i","q","o","-","t","e","n","a","n","t","-","c","1">>}

\* pods that differ in the labels and the node the pod mapper looks at
EventPods ==
    {[NewPod(1, PodIPOf(1)) EXCEPT !.LocalPod = localPod, !.Origin = origin,
                                   !.NodeName = nodeName] :
        localPod \in BOOLEAN, origin \in {Nil, Ptr(ClusterC1), Ptr(<<"c","-","2">>)},
        nodeName \in {<<>>, ClusterC1, <<"c","-","2">>}}

\* Networks of the platform namespace, of tenant namespaces and of others
EventNetworks ==
    {LocalNetwork}
        \cup {PeerNetwork(clusterID) : clusterID \in ClusterIDs}
        \cup {[PeerNetwork(ClusterC1) EXCEPT !.Namespace = namespace] :
                 namespace \in OtherNamespaces}

\* the Policies the store may hold when a watch event arrives
StoredPolicies ==
    {NewPolicy(PolicyKeyC1, <<>>, 1),
     NewPolicy(NewRequest(<<"c","-","2">>, GetClusterNamespace(<<"c","-","2">>)), <<>>, 2),
     NewPolicy(PolicyKeyBad, <<>>, 3)}

InitCalls ==
    /\ policies \in SUBSET StoredPolicies
    /\ fwcs = {}
    /\ pods = {}
    /\ networks = {}
    /\ nsos = {}
    /\ last = NoLast
    /\ forged = Nil
    /\ queue = {}
    /\ pass = Nil

\* ExtractClusterID(GetClusterNamespace(clusterID))
NamespaceRoundTripCall(clusterID) ==
    /\ forged' = Ptr([call |-> "GetClusterNamespace", clusterID |-> clusterID,
                      namespace |-> GetClusterNamespace(clusterID),
                      out |-> ExtractClusterID(GetClusterNamespace(clusterID))])
    /\ UNCHANGED <<policies, fwcs, pods, networks, nsos, last, queue, pass>>

\* pods handed to the Set builder: every other one has no IP yet
CallPods ==
    {NewPod(id, IF id % 2 = 0 THEN <<>> ELSE PodIPOf(id)) : id \in 1..(MaxPods + 1)}

\* the pod lists over those pods, in every order
CallPodLists == UNION {Orders(S) : S \in SUBSET CallPods}

ForgePodIpsSetCall(setName, podList) ==
    /\ forged' = Ptr([call |-> "ForgePodIpsSet", setName |-> setName,
                      podList |-> podList, out |-> ForgePodIpsSet(setName, podList)])
    /\ UNCHANGED <<policies, fwcs, pods, networks, nsos, last, queue, pass>>

podEnqueuerCall(pod) ==
    /\ forged' = Ptr([call |-> "podEnqueuer", obj |-> pod, out |-> podEnqueuer(pod)])
    /\ UNCHANGED <<policies, fwcs, pods, networks, nsos, last, queue, pass>>

networkEnqueuerCall(network) ==
    /\ forged' = Ptr([call |-> "networkEnqueuer", obj |-> network,
                      out |-> networkEnqueuer(network)])
    /\ UNCHANGED <<policies, fwcs, pods, networks, nsos, last, queue, pass>>

allPeeringConnectivityEnqueuerCall(namespace) ==
    /\ forged' = Ptr([call |-> "allPeeringConnectivityEnqueuer", obj |-> namespace,
                      out |-> allPeeringConnectivityEnqueuer(namespace)])
    /\ UNCHANGED <<policies, fwcs, pods, networks, nsos, last, queue, pass>>

ExtractClusterIDCall(namespace) ==
    /\ forged' = Ptr([call |-> "ExtractClusterID", namespace |-> namespace,
                      out |-> ExtractClusterID(namespace)])
    /\ UNCHANGED <<policies, fwcs, pods, networks, nsos, last, queue, pass>>

NextCalls ==
    \/ \E pod \in EventPods : podEnqueuerCall(pod)
    \/ \E network \in EventNetworks : networkEnqueuerCall(network)
    \/ \E namespace \in {NsOne, NsTwo} : allPeeringConnectivityEnqueuerCall(namespace)
    \/ \E clusterID \in ClusterIDs : NamespaceRoundTripCall(clusterID)
    \/ \E namespace \in OtherNamespaces : ExtractClusterIDCall(namespace)
    \/ \E setName \in {SetNameOffloaded, NamespaceSetName(NsOne)} :
       \E podList \in CallPodLists : ForgePodIpsSetCall(setName, podList)

SpecCalls == InitCalls /\ [][NextCalls]_vars

-----------------------------------------------------------------------------
\* Specification of the controller run by its manager: a change of a watched
\* object is mapped to reconcile requests, which wait in the work queue until
\* a worker hands them to Reconcile; a pass that returns an error puts its
\* request back.

\* the Policy is created with a party the compiler turns away
RejectedRules == <<NewRule(ActionAllow, EmptyParty, Nil)>>

\* and corrected to one over the pods of the offloaded namespaces and the
\* peer's pod CIDR
CorrectedRules ==
    <<NewRule(ActionAllow, GroupParty(ResourceGroupVcLocal),
              GroupParty(ResourceGroupRemoteCluster))>>

\* a pod offloaded by consumer c1, created with its IP, and a plain pod,
\* created without; both of namespace ns1
SyncPods == {NewPod(1, PodIPOf(1)), NewPod(3, <<>>)}

PodCreate(pod) ==
    /\ \A p \in pods : p.Id # pod.Id
    /\ pods' = pods \cup {pod}
    /\ last' = NoLast
    /\ UNCHANGED <<policies, fwcs, networks, nsos, forged>>

\* the pod is given its IP
PodUpdate(pod) ==
    /\ pod \in pods
    /\ pod.PodIP = <<>>
    /\ pods' = (pods \ {pod}) \cup {[pod EXCEPT !.PodIP = PodIPOf(pod.Id)]}
    /\ last' = NoLast
    /\ UNCHANGED <<policies, fwcs, networks, nsos, forged>>

PodDelete(pod) ==
    /\ pod \in pods
    /\ pods' = pods \ {pod}
    /\ last' = NoLast
    /\ UNCHANGED <<policies, fwcs, networks, nsos, forged>>

NamespaceOffloadingCreate(namespace) ==
    /\ namespace \notin nsos
    /\ nsos' = nsos \cup {namespace}
    /\ last' = NoLast
    /\ UNCHANGED <<policies, fwcs, pods, networks, forged>>

NamespaceOffloadingDelete(namespace) ==
    /\ namespace \in nsos
    /\ nsos' = nsos \ {namespace}
    /\ last' = NoLast
    /\ UNCHANGED <<policies, fwcs, pods, networks, forged>>

\* handler.EnqueueRequestsFromMapFunc: the requests a mapper returns are
\* added to the queue, which holds a request once
Enqueue(requests) == queue' = queue \cup Range(requests) /\ UNCHANGED pass

\* For(&PeeringConnectivity{}): the request names the object itself
policyEnqueuer(key) == <<NewRequest(key.Name, key.Namespace)>>

\* a pass that failed is not put back
AddRateLimitedForgotten(req, err) == {}

\* "(ctrl.Result{}, err): Reconciliation failed, will be requeued
\* automatically"
AddRateLimited(req, err) == IF err # ErrNil THEN {req} ELSE {}

\* one worker step: the request leaves the queue, Reconcile runs on it, an
\* error puts it back, and a status write that changed the Policy comes back
\* as a watch event of the Policy.  The owner reference Reconcile sets is not
\* a controller reference, so that Owns() maps no FirewallConfiguration
\* event to a request.
reconcileHandler(req, conflict) ==
    /\ req \in queue
    /\ Reconcile(req, conflict)
    /\ queue' = (queue \ {req})
                    \cup AddRateLimited(req, last'.err)
                    \cup (IF policies' # policies THEN Range(policyEnqueuer(req)) ELSE {})
    /\ UNCHANGED pass

NextSync ==
    \/ PolicyCreate(PolicyKeyC1, RejectedRules) /\ Enqueue(policyEnqueuer(PolicyKeyC1))
    \/ PolicyUpdate(PolicyKeyC1, CorrectedRules) /\ Enqueue(policyEnqueuer(PolicyKeyC1))
    \/ \E pod \in SyncPods : PodCreate(pod) /\ Enqueue(podEnqueuer(pod))
    \/ \E pod \in pods : PodUpdate(pod) /\ Enqueue(podEnqueuer(pod))
    \/ \E pod \in pods : PodDelete(pod) /\ Enqueue(podEnqueuer(pod))
    \/ NetworkCreate /\ Enqueue(networkEnqueuer(PeerNetwork(ClusterC1)))
    \/ NetworkDelete /\ Enqueue(networkEnqueuer(PeerNetwork(ClusterC1)))
    \/ NamespaceOffloadingCreate(NsOne) /\ Enqueue(allPeeringConnectivityEnqueuer(NsOne))
    \/ NamespaceOffloadingDelete(NsOne) /\ Enqueue(allPeeringConnectivityEnqueuer(NsOne))
    \/ \E req \in queue : reconcileHandler(req, FALSE)

\* nothing but the controller writes the FirewallConfiguration, so that no
\* Update is answered with a conflict; a request in the queue is handed to a
\* worker
SpecSync ==
    Init /\ [][NextSync]_vars
         /\ WF_vars(reconcileHandler(PolicyKeyC1, FALSE))

-----------------------------------------------------------------------------
\* Specification of one Reconcile pass told apart in its three client calls,
\* the Get of the Policy, the upsert and the status Update, with the Policy
\* edited and the pods of its namespace Set coming and going in between.

\* the rules the Policy holds at generation g: every edit appends a rule
RulesOfGeneration(g) ==
    [k \in 1..(g - 1) |->
        NewRule(IF k % 2 = 1 THEN ActionDeny ELSE ActionAllow,
                GroupParty(ResourceGroupPrivateSubnets), NamespaceParty(NsOne))]

\* r.Client.Get(ctx, req.NamespacedName, cfg): the pass works on this copy
GetStep(req) ==
    /\ pass = Nil
    /\ \E cfg \in GetPolicy(req) :
          pass' = Ptr([req |-> req, cfg |-> cfg, step |-> "upsert",
                       err |-> ErrNil, op |-> OperationResultNone])
    /\ UNCHANGED <<policies, fwcs, pods, networks, nsos, last, forged, queue>>

\* controllerutil.CreateOrUpdate with the spec compiled from the copy
UpsertStep ==
    /\ pass # Nil
    /\ Deref(pass).step = "upsert"
    /\ LET req == Deref(pass).req
           cfg == Deref(pass).cfg
           clusterID == ExtractClusterID(req.Namespace).clusterID
       IN  \E out \in ForgeFabricSpec(cfg, clusterID) :
              LET upsert == CreateOrUpdate(req.Namespace,
                               ForgeFabricResourceName(clusterID),
                               cfg, clusterID, out, FALSE)
              IN  /\ fwcs' = upsert.fwcs
                  /\ pass' = Ptr([Deref(pass) EXCEPT !.step = "status",
                                                     !.err = upsert.err,
                                                     !.op = upsert.op])
    /\ UNCHANGED <<policies, pods, networks, nsos, last, forged, queue>>

\* the Policy is read again before its status is written
StatusObjectRefetched(fetched, stored) == stored

\* the object whose status is written is the copy the Get returned
StatusObject(fetched, stored) == fetched

\* r.Status().Update(ctx, cfg): the API server turns down the write of an
\* object that is not the stored one any more (stale resourceVersion)
StatusStep ==
    /\ pass # Nil
    /\ Deref(pass).step = "status"
    /\ LET found == GetPolicy(Deref(pass).req)
       IN  IF found = {} THEN UNCHANGED policies
           ELSE LET stored == CHOOSE p \in found : TRUE
                    cfg == StatusObject(Deref(pass).cfg, stored)
                IN  IF cfg # stored THEN UNCHANGED policies
                    ELSE policies' = StatusUpdate(stored,
                            IF Deref(pass).err = ErrNil
                            THEN SetStatusCondition(ObserveGeneration(cfg), "True",
                                    ReasonFabricSynced,
                                    "FirewallConfiguration successfully synced")
                            ELSE SetStatusCondition(cfg, "False",
                                    ReasonFabricSyncFailed, Deref(pass).err))
    /\ pass' = Nil
    /\ UNCHANGED <<fwcs, pods, networks, nsos, last, forged, queue>>

NextSteps ==
    \/ PolicyCreate(PolicyKeyC1, RulesOfGeneration(1)) /\ UNCHANGED <<queue, pass>>
    \/ \E cfg \in policies :
          PolicyUpdate(PolicyKeyC1, RulesOfGeneration(cfg.Generation + 1))
             /\ UNCHANGED <<queue, pass>>
    \/ \E pod \in SyncPods : PodCreate(pod) /\ UNCHANGED <<queue, pass>>
    \/ \E pod \in pods : PodUpdate(pod) /\ UNCHANGED <<queue, pass>>
    \/ \E pod \in pods : PodDelete(pod) /\ UNCHANGED <<queue, pass>>
    \/ GetStep(PolicyKeyC1)
    \/ UpsertStep
    \/ StatusStep

SpecSteps == Init /\ [][NextSteps]_vars

-----------------------------------------------------------------------------
\* Specification of two Policies of one tenant namespace, reconciled in any
\* interleaving.

\* a second Policy of namespace liqo-tenant-c1, under another name
PolicyKeyOther == [Namespace |-> GetClusterNamespace(ClusterC1), Name |-> <<"x">>]

InitPair ==
    /\ \E rules \in OwnerRuleLists : \E others \in OwnerRuleLists :
          policies = {NewPolicy(PolicyKeyC1, rules, 1),
                      NewPolicy(PolicyKeyOther, others, 2)}
    /\ fwcs = {}
    /\ pods = {NewPod(1, PodIPOf(1))}
    /\ networks = {LocalNetwork}
    /\ nsos = {}
    /\ last = NoLast
    /\ forged = Nil
    /\ queue = {}
    /\ pass = Nil

NextPair ==
    \/ \E req \in {PolicyKeyC1, PolicyKeyOther} :
          Reconcile(req, FALSE) /\ UNCHANGED <<queue, pass>>
    \/ \E key \in {PolicyKeyC1, PolicyKeyOther} :
          PolicyDelete(key) /\ UNCHANGED <<queue, pass>>
    \/ GarbageCollect /\ UNCHANGED <<queue, pass>>

SpecPair == InitPair /\ [][NextPair]_vars

-----------------------------------------------------------------------------
\* Specification of the controller run by its manager over a Policy named
\* as the tests name theirs: by a name that is not the cluster ID of its
\* tenant namespace.

\* the pods consumer c1 offloaded reach the pod CIDR of c1
NamedRules ==
    <<NewRule(ActionAllow, GroupParty(ResourceGroupOffloaded),
              GroupParty(ResourceGroupRemoteCluster))>>

NextNamed ==
    \/ PolicyCreate(PolicyKeyOther, NamedRules) /\ Enqueue(policyEnqueuer(PolicyKeyOther))
    \/ PolicyDelete(PolicyKeyOther) /\ Enqueue(policyEnqueuer(PolicyKeyOther))
    \/ GarbageCollect /\ UNCHANGED <<queue, pass>>
    \/ PodCreate(NewPod(1, PodIPOf(1))) /\ Enqueue(podEnqueuer(NewPod(1, PodIPOf(1))))
    \/ \E pod \in pods : PodDelete(pod) /\ Enqueue(podEnqueuer(pod))
    \/ NetworkCreate /\ Enqueue(networkEnqueuer(PeerNetwork(ClusterC1)))
    \/ NetworkDelete /\ Enqueue(networkEnqueuer(PeerNetwork(ClusterC1)))
    \/ \E req \in queue : reconcileHandler(req, FALSE)

\* a request in the queue is handed to a worker, whichever object it names
SpecNamed ==
    Init /\ [][NextNamed]_vars
         /\ WF_vars(reconcileHandler(PolicyKeyOther, FALSE))
         /\ WF_vars(reconcileHandler(PolicyKeyC1, FALSE))

-----------------------------------------------------------------------------
\* Specification of the controller run by its manager over a Policy whose
\* Sets are filled from pods that bear no Liqo label.

\* the pods of the offloaded namespaces, or the pods of namespace ns1, may
\* reach anything
PlainRuleLists ==
    {<<NewRule(ActionAllow, GroupParty(ResourceGroupVcLocal), Nil)>>,
     <<NewRule(ActionAllow, NamespaceParty(NsOne), Nil)>>}

\* a pod of namespace ns1 without origin-cluster or local-pod label, created
\* without its IP
PlainPod == NewPod(3, <<>>)

NextPlain ==
    \/ \E rules \in PlainRuleLists :
          PolicyCreate(PolicyKeyC1, rules) /\ Enqueue(policyEnqueuer(PolicyKeyC1))
    \/ NamespaceOffloadingCreate(NsOne) /\ Enqueue(allPeeringConnectivityEnqueuer(NsOne))
    \/ PodCreate(PlainPod) /\ Enqueue(podEnqueuer(PlainPod))
    \/ \E pod \in pods : PodUpdate(pod) /\ Enqueue(podEnqueuer(pod))
    \/ \E pod \in pods : PodDelete(pod) /\ Enqueue(podEnqueuer(pod))
    \/ \E req \in queue : reconcileHandler(req, FALSE)

SpecPlain ==
    Init /\ [][NextPlain]_vars /\ WF_vars(reconcileHandler(PolicyKeyC1, FALSE))

-----------------------------------------------------------------------------
\* Specification of the controller run by its manager while the Network of
\* the local pod CIDR, liqo/pod-cidr, is created, changed and deleted.

\* the pods of the local cluster may reach anything
LocalRules == <<NewRule(ActionAllow, GroupParty(ResourceGroupLocalCluster), Nil)>>

\* the pod CIDR the local cluster is moved to
MovedCIDR == <<"1","0",".","3","/","1","6">>

LocalNetworkCreate ==
    /\ GetNetwork(localPodCIDRNetworkNamespace, localPodCIDRNetworkName).err # ErrNil
    /\ networks' = networks \cup {LocalNetwork}
    /\ last' = NoLast
    /\ UNCHANGED <<policies, fwcs, pods, nsos, forged>>

LocalNetworkUpdate(cidr) ==
    /\ \E old \in networks :
          /\ old.Namespace = localPodCIDRNetworkNamespace
          /\ old.Name = localPodCIDRNetworkName
          /\ old.SpecCIDR # cidr
          /\ networks' = (networks \ {old})
                            \cup {[old EXCEPT !.SpecCIDR = cidr, !.StatusCIDR = cidr]}
    /\ last' = NoLast
    /\ UNCHANGED <<policies, fwcs, pods, nsos, forged>>

LocalNetworkDelete ==
    /\ \E old \in networks :
          /\ old.Namespace = localPodCIDRNetworkNamespace
          /\ old.Name = localPodCIDRNetworkName
          /\ networks' = networks \ {old}
    /\ last' = NoLast
    /\ UNCHANGED <<policies, fwcs, pods, nsos, forged>>

\* the controller starts before the Network of the local pod CIDR exists
InitLocal ==
    /\ policies = {}
    /\ fwcs = {}
    /\ pods = {}
    /\ networks = {}
    /\ nsos = {}
    /\ last = NoLast
    /\ forged = Nil
    /\ queue = {}
    /\ pass = Nil

NextLocal ==
    \/ PolicyCreate(PolicyKeyC1, LocalRules) /\ Enqueue(policyEnqueuer(PolicyKeyC1))
    \/ PolicyDelete(PolicyKeyC1) /\ Enqueue(policyEnqueuer(PolicyKeyC1))
    \/ GarbageCollect /\ UNCHANGED <<queue, pass>>
    \/ LocalNetworkCreate /\ Enqueue(networkEnqueuer(LocalNetwork))
    \/ \E cidr \in {LocalCIDR, MovedCIDR} :
          LocalNetworkUpdate(cidr)
             /\ Enqueue(networkEnqueuer([LocalNetwork EXCEPT !.SpecCIDR = cidr,
                                                             !.StatusCIDR = cidr]))
    \/ LocalNetworkDelete /\ Enqueue(networkEnqueuer(LocalNetwork))
    \/ \E req \in queue : reconcileHandler(req, FALSE)

SpecLocal ==
    InitLocal /\ [][NextLocal]_vars /\ WF_vars(reconcileHandler(PolicyKeyC1, FALSE))

-----------------------------------------------------------------------------
\* The compiler of the provider-side NetworkPolicy, and a specification of
\* direct calls of it on any Policy over any store of Networks.

ResourceGroupLeaf == "leaf"

ErrPartyNil == "party is nil"
ErrUnsupportedGroup == "unsupported resource group"
ErrUnsupportedParty == "unsupported party configuration"

\* the external CIDR of the peer; the helper is called here and its body is
\* not among the sources: it is taken to read the Network <clusterID>-external
\* of the tenant namespace as GetRemoteClusterPodCIDR reads <clusterID>-pod
GetRemoteClusterExternalCIDR(clusterID) ==
    LET got == GetNetwork(GetClusterNamespace(clusterID),
                          clusterID \o <<"-","e","x","t","e","r","n","a","l">>)
    IN  IF got.err # ErrNil THEN [err |-> got.err, cidr |-> <<>>]
        ELSE [err |-> ErrNil, cidr |-> Deref(got.network).StatusCIDR]

\* networkingv1.NetworkPolicyPeer
IPBlockPeer(cidr) ==
    [IPBlock |-> Ptr([CIDR |-> cidr]), NamespaceSelector |-> Nil, PodSelector |-> Nil]

NamespaceSelectorPeer(matchLabels, matchExpressions) ==
    [IPBlock |-> Nil,
     NamespaceSelector |-> Ptr([MatchLabels |-> matchLabels,
                                MatchExpressions |-> matchExpressions]),
     PodSelector |-> Nil]

PodSelectorPeer(matchLabels) ==
    [IPBlock |-> Nil, NamespaceSelector |-> Nil,
     PodSelector |-> Ptr([MatchLabels |-> matchLabels, MatchExpressions |-> <<>>])]

\* the peers of a CIDR read from a Network, or the error of the read
CIDRPeers(got) ==
    IF got.err # ErrNil THEN [err |-> got.err, peers |-> <<>>]
    ELSE [err |-> ErrNil, peers |-> <<IPBlockPeer(got.cidr)>>]

ForgeNetworkPolicyPeer(clusterID, peer) ==
    IF peer = Nil THEN [err |-> ErrPartyNil, peers |-> <<>>]
    ELSE IF Deref(peer).Namespace # Nil
    THEN [err |-> ErrNil,
          peers |-> <<NamespaceSelectorPeer(
                         {<<"kubernetes.io/metadata.name", Deref(Deref(peer).Namespace)>>},
                         <<>>)>>]
    ELSE IF Deref(peer).Group # Nil
    THEN LET group == Deref(Deref(peer).Group)
         IN  CASE group = ResourceGroupLocalCluster ->
                     CIDRPeers(GetCurrentClusterPodCIDR)
               [] group = ResourceGroupRemoteCluster ->
                     CIDRPeers(GetRemoteClusterPodCIDR(clusterID))
               [] group = ResourceGroupLeaf ->
                     CIDRPeers(GetRemoteClusterExternalCIDR(clusterID))
               [] group = ResourceGroupOffloaded ->
                     [err |-> ErrNil,
                      peers |-> <<NamespaceSelectorPeer(
                                     {},
                                     <<[Key |-> "liqo.io/remote-cluster-id",
                                        Operator |-> "In", Values |-> <<clusterID>>],
                                       [Key |-> "liqo.io/tenant-namespace",
                                        Operator |-> "DoesNotExist", Values |-> <<>>]>>)>>]
               [] group = ResourceGroupVcRemote ->
                     [err |-> ErrNil,
                      peers |-> <<PodSelectorPeer({<<"liqo.io/local-pod", "true">>})>>]
               [] OTHER -> [err |-> ErrUnsupportedGroup, peers |-> <<>>]
    ELSE [err |-> ErrUnsupportedParty, peers |-> <<>>]

\* the party names the offloaded group
IsOffloadedParty(party) ==
    /\ party # Nil
    /\ Deref(party).Group # Nil
    /\ Deref(Deref(party).Group) = ResourceGroupOffloaded

\* the loop over cfg.Spec.Rules: the first error ends it, and the action of
\* the rule is not read
ForgeProviderNetworkPolicySpec(cfg, clusterID) ==
    LET RECURSIVE Loop(_, _)
        Loop(rules, spec) ==
            IF rules = <<>> THEN [err |-> ErrNil, spec |-> Ptr(spec)]
            ELSE LET rule == Head(rules)
                     to == ForgeNetworkPolicyPeer(clusterID, rule.Destination)
                     from == ForgeNetworkPolicyPeer(clusterID, rule.Source)
                 IN  IF IsOffloadedParty(rule.Source) /\ to.err # ErrNil
                     THEN [err |-> to.err, spec |-> Nil]
                     ELSE IF IsOffloadedParty(rule.Destination) /\ from.err # ErrNil
                     THEN [err |-> from.err, spec |-> Nil]
                     ELSE Loop(Tail(rules),
                               [spec EXCEPT
                                  !.Egress = IF IsOffloadedParty(rule.Source)
                                             THEN Append(@, [To |-> to.peers]) ELSE @,
                                  !.Ingress = IF IsOffloadedParty(rule.Destination)
                                              THEN Append(@, [From |-> from.peers]) ELSE @])
    IN  Loop(cfg.Spec.Rules,
             [Ingress |-> <<>>, Egress |-> <<>>, PolicyTypes |-> <<"Ingress", "Egress">>])

\* rules with the offloaded group on one side, of either action, over the
\* parties the peer builder knows and those it does not
NetworkPolicyRuleUniverse ==
    {NewRule(ActionAllow, GroupParty(ResourceGroupOffloaded), GroupParty(ResourceGroupRemoteCluster)),
     NewRule(ActionDeny, GroupParty(ResourceGroupOffloaded), NamespaceParty(NsOne)),
     NewRule(ActionAllow, GroupParty(ResourceGroupLocalCluster), GroupParty(ResourceGroupOffloaded)),
     NewRule(ActionDeny, GroupParty(ResourceGroupVcRemote), GroupParty(ResourceGroupOffloaded)),
     NewRule(ActionAllow, GroupParty(ResourceGroupOffloaded), Nil),
     NewRule(ActionAllow, Nil, GroupParty(ResourceGroupOffloaded)),
     NewRule(ActionAllow, GroupParty(ResourceGroupOffloaded), GroupParty(ResourceGroupPrivateSubnets)),
     NewRule(ActionDeny, GroupParty(ResourceGroupVcLocal), GroupParty(ResourceGroupVcRemote))}

NetworkPolicyRuleLists == SeqsUpTo(NetworkPolicyRuleUniverse, MaxRules)

InitNetworkPolicy ==
    /\ \E rules \in NetworkPolicyRuleLists :
          policies = {NewPolicy(PolicyKeyC1, rules, 1)}
    /\ fwcs = {}
    /\ pods = {}
    /\ networks \in {{}, {LocalNetwork}, {LocalNetwork, PeerNetwork(ClusterC1)}}
    /\ nsos = {}
    /\ last = NoLast
    /\ forged = Nil
    /\ queue = {}
    /\ pass = Nil

ForgeProviderNetworkPolicySpecCall ==
    /\ forged = Nil
    /\ \E cfg \in policies :
          LET out == ForgeProviderNetworkPolicySpec(cfg, ClusterC1)
          IN  forged' = Ptr([call |-> "ForgeProviderNetworkPolicySpec", cfg |-> cfg,
                             clusterID |-> ClusterC1, err |-> out.err, spec |-> out.spec])
    /\ UNCHANGED <<policies, fwcs, pods, networks, nsos, last, queue, pass>>

NextNetworkPolicy == ForgeProviderNetworkPolicySpecCall

SpecNetworkPolicy == InitNetworkPolicy /\ [][NextNetworkPolicy]_vars

-----------------------------------------------------------------------------
\* Properties.

FilterRulesOf(spec) == spec.Table.Chains[1].Rules.FilterRules
SetsOf(spec) == spec.Table.Sets

\* the (spec, err) pairs the compiler may return for a stored Policy whose
\* namespace names a cluster
CompiledOf(cfg) ==
    LET extracted == ExtractClusterID(cfg.Namespace)
    IN  IF extracted.err # ErrNil THEN {}
        ELSE ForgeFabricSpec(cfg, extracted.clusterID)

\* the pass that has just ended read a Policy and succeeded
PassSucceeded == last.result = "ok" /\ last.found

\* the FirewallConfiguration the pass on last.req maintains
StoredFabric ==
    GetFwc(last.req.Namespace,
           ForgeFabricResourceName(ExtractClusterID(last.req.Namespace).clusterID))

\* the direct call has returned a spec
ForgedOk == forged # Nil /\ Deref(forged).err = ErrNil
ForgedRules == Deref(forged).cfg.Spec.Rules
ForgedFilterRules == FilterRulesOf(Deref(Deref(forged).spec))
ForgedSets == SetsOf(Deref(Deref(forged).spec))

\* C1: every spec the compiler returns for a rule list R holds exactly one
\* chain with 1 + Len(R) filter rules, the empty list included; and right
\* after a successful Reconcile pass the stored FirewallConfiguration holds
\* one chain with 1 + Len(current rules) filter rules.
C1_RuleCount ==
    /\ \A cfg \in policies : \A out \in CompiledOf(cfg) :
          out.err = ErrNil =>
             /\ Len(Deref(out.spec).Table.Chains) = 1
             /\ Len(FilterRulesOf(Deref(out.spec))) = 1 + Len(cfg.Spec.Rules)
    /\ PassSucceeded =>
          /\ StoredFabric # {}
          /\ \A cfg \in GetPolicy(last.req) : \A f \in StoredFabric :
                /\ Len(f.Spec.Table.Chains) = 1
                /\ Len(FilterRulesOf(f.Spec)) = 1 + Len(cfg.Spec.Rules)

\* a Policy updated to a two-rule list has been reconciled into an existing
\* FirewallConfiguration
C1_Witness ==
    /\ PassSucceeded
    /\ last.op = OperationResultUpdated
    /\ \E cfg \in GetPolicy(last.req) :
          /\ cfg.Generation >= 2
          /\ Len(cfg.Spec.Rules) >= 2
          /\ \E f \in StoredFabric : Len(FilterRulesOf(f.Spec)) = 1 + Len(cfg.Spec.Rules)

\* the permutations of 1..n
IndexPermutations(n) == {o \in [1..n -> 1..n] : \A i, j \in 1..n : o[i] = o[j] => i = j}

Permuted(rules, o) == [k \in 1..Len(rules) |-> rules[o[k]]]

\* the match list input rule `rule` compiles to on its own
MatchOf(rule, clusterID) ==
    ForgeMatchRule(rule.Source, clusterID, MatchPositionSrc, {}, {}).matchRules
        \o ForgeMatchRule(rule.Destination, clusterID, MatchPositionDst, {}, {}).matchRules

\* C2 (as amended): the filter rule at chain position i+1 is the one compiled
\* from input rule i: it carries the name allowed-traffic-<i>, the action and
\* the match list of that rule, whether or not an equal rule precedes it; and
\* compiling a permutation of the rule list yields the same actions and match
\* lists under the same permutation, while the names stay tied to the
\* positions.
C2_OrderPreserved ==
    ForgedOk =>
       LET rules == ForgedRules
           compiled == ForgedFilterRules
       IN  /\ Len(compiled) = 1 + Len(rules)
           /\ \A i \in 1..Len(rules) :
                 /\ compiled[i + 1].Name = RuleNamePrefix \o Itoa(i - 1)
                 /\ compiled[i + 1].Action = ForgeRuleAction(rules[i].Action)
                 /\ compiled[i + 1].Match = MatchOf(rules[i], Deref(forged).clusterID)
           /\ \A o \in IndexPermutations(Len(rules)) :
              \A out \in ForgeFabricSpec(
                            [Deref(forged).cfg EXCEPT !.Spec.Rules = Permuted(rules, o)],
                            Deref(forged).clusterID) :
                 /\ out.err = ErrNil
                 /\ LET permuted == FilterRulesOf(Deref(out.spec))
                    IN  /\ Len(permuted) = 1 + Len(rules)
                        /\ \A k \in 1..Len(rules) :
                              /\ permuted[k + 1].Action = compiled[o[k] + 1].Action
                              /\ permuted[k + 1].Match = compiled[o[k] + 1].Match
                              /\ permuted[k + 1].Name = compiled[k + 1].Name

\* two different rules were compiled, in the order given
C2_Witness ==
    /\ ForgedOk
    /\ Len(ForgedRules) >= 2
    /\ ForgedRules[1] # ForgedRules[2]
    /\ ForgedFilterRules[2].Match # ForgedFilterRules[3].Match

\* C2 (as stated): compiling a permutation of the rule list yields the
\* compiled filter rules, names included, under the same permutation.
C2_PermutesIdentically ==
    ForgedOk =>
       LET rules == ForgedRules
           compiled == ForgedFilterRules
       IN  \A o \in IndexPermutations(Len(rules)) :
           \A out \in ForgeFabricSpec(
                         [Deref(forged).cfg EXCEPT !.Spec.Rules = Permuted(rules, o)],
                         Deref(forged).clusterID) :
              /\ out.err = ErrNil
              /\ \A k \in 1..Len(rules) :
                    FilterRulesOf(Deref(out.spec))[k + 1] = compiled[o[k] + 1]

\* C3: in every compiled spec the first filter rule of the chain accepts and
\* matches connection-tracking state established/related and nothing else,
\* whatever rules the Policy holds.
C3_BaselineFirst ==
    ForgedOk =>
       /\ Len(ForgedFilterRules) >= 1
       /\ ForgedFilterRules[1].Action = "accept"
       /\ Len(ForgedFilterRules[1].Match) = 1
       /\ ForgedFilterRules[1].Match[1].IP = Nil
       /\ ForgedFilterRules[1].Match[1].CtState # Nil
       /\ Deref(ForgedFilterRules[1].Match[1].CtState).Value = <<"established", "related">>
       /\ ForgedFilterRules[1].Match[1].Op = "eq"

\* a Policy whose first rule denies has been compiled
C3_Witness ==
    /\ ForgedOk
    /\ Len(ForgedRules) >= 1
    /\ ForgedRules[1].Action = ActionDeny
    /\ ForgedFilterRules[2].Action = "drop"

\* C4: an input rule with Action allow compiles to a filter rule with action
\* accept, one with Action deny to a filter rule with action drop, whatever
\* its parties and its position.
C4_ActionMapping ==
    ForgedOk =>
       \A i \in 1..Len(ForgedRules) :
          /\ ForgedRules[i].Action = "allow" => ForgedFilterRules[i + 1].Action = "accept"
          /\ ForgedRules[i].Action = "deny" => ForgedFilterRules[i + 1].Action = "drop"

\* a deny rule followed by an allow rule, both with parties, has been compiled
C4_Witness ==
    /\ ForgedOk
    /\ Len(ForgedRules) >= 2
    /\ ForgedRules[1].Action = "deny" /\ ForgedRules[1].Source # Nil
    /\ ForgedRules[2].Action = "allow" /\ ForgedRules[2].Destination # Nil

\* C5 (as stated): an input rule whose Action is empty compiles to a filter
\* rule with action accept.
C5_EmptyActionAccepts ==
    ForgedOk =>
       \A i \in 1..Len(ForgedRules) :
          ForgedRules[i].Action = "" => ForgedFilterRules[i + 1].Action = "accept"

\* a rule with an empty Action has been compiled
C5_Witness ==
    /\ ForgedOk
    /\ \E i \in 1..Len(ForgedRules) : ForgedRules[i].Action = ""

\* the parties of a rule list
PartiesOf(rules) ==
    {Deref(rules[i].Source) : i \in {j \in 1..Len(rules) : rules[j].Source # Nil}}
        \cup {Deref(rules[i].Destination) :
                i \in {j \in 1..Len(rules) : rules[j].Destination # Nil}}

\* the name of the Set that backs a resource group
GroupSetName(rg) ==
    CASE rg = ResourceGroupOffloaded -> <<"o","f","f","l","o","a","d","e","d">>
      [] rg = ResourceGroupVcLocal -> <<"v","c","l","o","c","a","l">>
      [] rg = ResourceGroupVcRemote -> <<"v","c","r","e","m","o","t","e">>
      [] rg = ResourceGroupPrivateSubnets ->
            <<"p","r","i","v","a","t","e","s","u","b","n","e","t","s">>

SetBackedGroups ==
    {ResourceGroupOffloaded, ResourceGroupVcLocal, ResourceGroupVcRemote,
     ResourceGroupPrivateSubnets}

\* the names of the Sets of the groups and namespaces some parties refer to
SetNamesReferredBy(parties) ==
    {GroupSetName(Deref(p.Group)) :
        p \in {q \in parties : q.Group # Nil /\ Deref(q.Group) \in SetBackedGroups}}
    \cup {<<"n","s","-">> \o Deref(p.Namespace) :
            p \in {q \in parties : q.Namespace # Nil}}

ReferencedSetNames(rules) == SetNamesReferredBy(PartiesOf(rules))

SetNamesOf(spec) == {SetsOf(spec)[i].Name : i \in 1..Len(SetsOf(spec))}

\* C6: a compiled table holds no Set of a resource group or namespace that no
\* rule of the Policy refers to, and an empty rule list compiles to no Set at
\* all; right after a successful Reconcile pass the stored
\* FirewallConfiguration holds no Set of a group or namespace the current
\* rules do not refer to, whatever it held before.
C6_DeadGroupElimination ==
    /\ \A cfg \in policies : \A out \in CompiledOf(cfg) :
          out.err = ErrNil =>
             /\ SetNamesOf(Deref(out.spec)) \subseteq ReferencedSetNames(cfg.Spec.Rules)
             /\ cfg.Spec.Rules = <<>> => SetsOf(Deref(out.spec)) = <<>>
    /\ PassSucceeded =>
          \A cfg \in GetPolicy(last.req) : \A f \in StoredFabric :
             SetNamesOf(f.Spec) \subseteq ReferencedSetNames(cfg.Spec.Rules)

\* a pass has rewritten a FirewallConfiguration that held the offloaded Set
\* for a Policy that no longer refers to the offloaded group
C6_Witness ==
    /\ PassSucceeded
    /\ \E b \in last.before : <<"o","f","f","l","o","a","d","e","d">> \in SetNamesOf(b.Spec)
    /\ \E cfg \in GetPolicy(last.req) :
          /\ cfg.Generation >= 2
          /\ \A p \in PartiesOf(cfg.Spec.Rules) :
                p.Group = Nil \/ Deref(p.Group) # ResourceGroupOffloaded
    /\ \E f \in StoredFabric :
          <<"o","f","f","l","o","a","d","e","d">> \notin SetNamesOf(f.Spec)

\* the parties that set exactly one of group and namespace
WellFormed(p) == (p.Group = Nil) # (p.Namespace = Nil)

IPValuesOf(filterRules) ==
    UNION {{Deref(filterRules[i].Match[j].IP).Value :
              j \in {k \in 1..Len(filterRules[i].Match) : filterRules[i].Match[k].IP # Nil}} :
           i \in 1..Len(filterRules)}

IsSetReference(value) == value # <<>> /\ Head(value) = "@"

\* C8: in every compiled spec, every match fragment whose IP value is a set
\* reference "@<name>" has a Set named <name> in the same table, and every
\* Set of the table is referred to by a match fragment of some compiled rule.
C8_SetReferenceIntegrity ==
    ForgedOk =>
       /\ \A value \in IPValuesOf(ForgedFilterRules) :
             IsSetReference(value) =>
                \E i \in 1..Len(ForgedSets) : ForgedSets[i].Name = Tail(value)
       /\ \A i \in 1..Len(ForgedSets) :
             <<"@">> \o ForgedSets[i].Name \in IPValuesOf(ForgedFilterRules)

\* a rule list that refers to a set-backed group and to a namespace has been
\* compiled
C8_Witness ==
    /\ ForgedOk
    /\ Len(ForgedSets) >= 2
    /\ \E value \in IPValuesOf(ForgedFilterRules) :
          IsSetReference(value) /\ Tail(value) = <<"n","s","-">> \o NsOne
    /\ \E value \in IPValuesOf(ForgedFilterRules) :
          IsSetReference(value) /\ Tail(value) = <<"o","f","f","l","o","a","d","e","d">>

\* C9 (as stated): every run of the compiler on the same Policy and the same
\* cluster state returns what the first run returned, the order of the Sets
\* and of their elements included.
C9_Deterministic ==
    forged # Nil =>
       \A out \in ForgeFabricSpec(Deref(forged).cfg, Deref(forged).clusterID) :
          out.err = Deref(forged).err /\ out.spec = Deref(forged).spec

\* a Policy whose rules refer to two set-backed groups has been compiled
C9_Witness ==
    /\ ForgedOk
    /\ Cardinality({Deref(p.Group) :
          p \in {q \in PartiesOf(ForgedRules) :
                    q.Group # Nil /\ Deref(q.Group) \in SetBackedGroups}}) >= 2

\* a rule one of whose parties is non-nil and sets neither group nor namespace
HasEmptyParty(rules) ==
    \E p \in PartiesOf(rules) : p.Group = Nil /\ p.Namespace = Nil

HasBothParty(rules) ==
    \E p \in PartiesOf(rules) : p.Group # Nil /\ p.Namespace # Nil

\* a pass over the stored Policy cfg has just ended
PassEndedOn(cfg) ==
    last.result # "none" /\ last.req = [Namespace |-> cfg.Namespace, Name |-> cfg.Name]

\* C11: a Reconcile pass over a Policy that holds a party setting both a
\* group and a namespace ends with an error and Ready=False, and the stored
\* FirewallConfiguration is left as it was: no filter rule is compiled from
\* that party.
C11_BothPartyRejected ==
    \A cfg \in policies :
       (HasBothParty(cfg.Spec.Rules) /\ PassEndedOn(cfg)) =>
          /\ last.result = "error"
          /\ last.err # ErrNil
          /\ cfg.Status.Ready.Status = "False"
          /\ StoredFabric = last.before

\* a pass over a Policy whose only rule has the source {group: offloaded,
\* namespace: ns1} has succeeded with Ready=True, and the stored filter rule
\* is the one of the source {group: offloaded}: the namespace is dropped
C11_Witness ==
    /\ PassSucceeded
    /\ \E cfg \in GetPolicy(last.req) :
          /\ cfg.Spec.Rules = <<NewRule(ActionAllow, BothParty, Nil)>>
          /\ cfg.Status.Ready.Status = "True"
    /\ \E f \in StoredFabric :
          /\ Len(FilterRulesOf(f.Spec)) = 2
          /\ FilterRulesOf(f.Spec)[2].Match =
                MatchOf(NewRule(ActionAllow, GroupParty(ResourceGroupOffloaded), Nil),
                        ClusterC1)
          /\ SetNamesOf(f.Spec) = {GroupSetName(ResourceGroupOffloaded)}

HasUnknownGroup(rules) ==
    \E p \in PartiesOf(rules) : p.Group # Nil /\ Deref(p.Group) \notin ResourceGroupKeys

\* C12: a Reconcile pass over a Policy that holds a party naming a resource
\* group without an entry in ResourceGroupFuncts ends with an ordinary
\* returned error and Ready=False; the pass does not crash and the stored
\* FirewallConfiguration is left as it was.
C12_UnknownGroupIsError ==
    \A cfg \in policies :
       (HasUnknownGroup(cfg.Spec.Rules) /\ PassEndedOn(cfg)) =>
          /\ last.result = "error"
          /\ last.err \notin {ErrNil, ErrPanic}
          /\ cfg.Status.Ready.Status = "False"
          /\ StoredFabric = last.before

\* a pass over a Policy whose only rule names the group leaf has ended in a
\* panic, and the Policy's status is as it was before the pass
C12_Witness ==
    /\ last.result = "panic"
    /\ last.err = ErrPanic
    /\ last.events = <<>>
    /\ \E cfg \in GetPolicy(last.req) :
          /\ cfg.Spec.Rules = <<NewRule(ActionAllow, Nil, UnknownGroupParty)>>
          /\ cfg.Status.Ready = NoCondition
    /\ StoredFabric = {}

\* C13: a Reconcile pass for an identity under which no Policy is stored
\* returns success with no error, emits no event and writes nothing: the
\* stored Policies and FirewallConfigurations are after the pass what they
\* were before it.
C13_NotFoundNoWrite ==
    [][(last'.result # "none" /\ GetPolicy(last'.req) = {}) =>
          /\ last'.result = "ok"
          /\ last'.err = ErrNil
          /\ last'.events = <<>>
          /\ last'.op = OperationResultNone
          /\ policies' = policies
          /\ fwcs' = fwcs]_vars

\* a pass for the identity of a Policy deleted after a successful pass has
\* ended, with the FirewallConfiguration of that Policy still stored
C13_Witness ==
    /\ last.result = "ok"
    /\ ~last.found
    /\ last.req = PolicyKeyC1
    /\ policies = {}
    /\ \E f \in fwcs : f.Namespace = PolicyKeyC1.Namespace

\* C14: a Reconcile pass over a Policy whose namespace does not start with
\* the tenant prefix ends with a non-nil error and the Ready condition False
\* with reason ClusterIDExtractionFailed, and the step of that pass leaves
\* every stored FirewallConfiguration as it was.
C14_BadNamespaceFails ==
    /\ [](\A cfg \in policies :
             (cfg.Namespace = PolicyKeyBad.Namespace /\ PassEndedOn(cfg)) =>
                /\ last.result = "error"
                /\ last.err # ErrNil
                /\ cfg.Status.Ready.Status = "False"
                /\ cfg.Status.Ready.Reason = ReasonClusterIDError)
    /\ [][(last'.result # "none" /\ last'.req.Namespace = PolicyKeyBad.Namespace
              /\ GetPolicy(last'.req) # {}) =>
             fwcs' = fwcs]_vars

\* a pass over the Policy stored in namespace default has ended
C14_Witness ==
    /\ last.result = "error"
    /\ last.req = PolicyKeyBad
    /\ fwcs = {}
    /\ \E cfg \in GetPolicy(PolicyKeyBad) :
          /\ cfg.Status.Ready.Status = "False"
          /\ cfg.Status.Ready.Reason = ReasonClusterIDError
          /\ cfg.Status.Ready.Message = last.err

\* C15: right after a Reconcile pass over a Policy that ended without error,
\* the Policy's Ready condition is True with reason FabricSynced and its
\* ObservedGeneration equals its generation; right after a pass that ended
\* with an error, or over a Policy no compile of which succeeds, its Ready
\* condition is False.
C15_SuccessIsReady ==
    \A cfg \in policies :
       PassEndedOn(cfg) =>
          /\ last.result = "ok" =>
                /\ cfg.Status.Ready.Status = "True"
                /\ cfg.Status.Ready.Reason = ReasonFabricSynced
                /\ cfg.Status.ObservedGeneration = cfg.Generation
          /\ last.result = "error" => cfg.Status.Ready.Status = "False"
          /\ (\A out \in CompiledOf(cfg) : out.err # ErrNil) =>
                cfg.Status.Ready.Status = "False"

\* a pass over a Policy at its second generation has succeeded and recorded
\* that generation
C15_Witness ==
    /\ PassSucceeded
    /\ last.op = OperationResultUpdated
    /\ \E cfg \in GetPolicy(last.req) :
          /\ cfg.Generation = 2
          /\ cfg.Status.ObservedGeneration = 2
          /\ cfg.Status.Ready.Status = "True"
          /\ cfg.Status.Ready.Reason = ReasonFabricSynced

\* C16: right after a Reconcile pass over a Policy that ended with an error,
\* the Policy's ObservedGeneration equals its generation, its Ready
\* condition is False with the reason of the failure, and the condition's
\* message holds the text of the error.
C16_FailureRecordsGeneration ==
    \A cfg \in policies :
       (PassEndedOn(cfg) /\ last.result = "error") =>
          /\ cfg.Status.ObservedGeneration = cfg.Generation
          /\ cfg.Status.Ready.Status = "False"
          /\ cfg.Status.Ready.Reason \in {ReasonClusterIDError, ReasonFabricSyncFailed}
          /\ cfg.Status.Ready.Message = last.err

\* a pass over a Policy at its second generation has failed, and the status
\* still shows the first generation next to Ready=False
C16_Witness ==
    /\ last.result = "error"
    /\ \E cfg \in GetPolicy(last.req) :
          /\ cfg.Generation = 2
          /\ cfg.Status.ObservedGeneration = 1
          /\ cfg.Status.Ready.Status = "False"
          /\ cfg.Status.Ready.Reason = ReasonFabricSyncFailed
          /\ cfg.Status.Ready.Message = last.err

\* the rules hold a party of the resource group rg
RefersToGroup(rules, rg) ==
    \E p \in PartiesOf(rules) : p.Group = Ptr(rg)

\* a read the compile of cfg needs fails: the Network of the local pod CIDR
\* or the Network of the peer's pod CIDR is missing
ReadFails(cfg) ==
    \/ /\ RefersToGroup(cfg.Spec.Rules, ResourceGroupLocalCluster)
       /\ LocalNetwork \notin networks
    \/ /\ RefersToGroup(cfg.Spec.Rules, ResourceGroupRemoteCluster)
       /\ PeerNetwork(ClusterC1) \notin networks

C18_ConflictRecovered ==
    last.result # "none" =>
       /\ last.err # ErrConflict
       /\ \A cfg \in GetPolicy(last.req) :
             cfg.Status.Ready.Message = ErrConflict => cfg.Status.Ready.Status # "False"

\* a pass whose update met a conflict has ended with that error and
\* Ready=False, and the stored FirewallConfiguration is the one of the rules
\* the Policy had before
C18_Witness ==
    /\ last.result = "error"
    /\ last.err = ErrConflict
    /\ StoredFabric = last.before
    /\ \E cfg \in GetPolicy(last.req) :
          /\ cfg.Status.Ready.Status = "False"
          /\ cfg.Status.Ready.Reason = ReasonFabricSyncFailed
          /\ \A f \in StoredFabric : \A out \in CompiledOf(cfg) :
                out.err = ErrNil /\ f.Spec # Deref(out.spec)

\* some stored FirewallConfiguration refers to an owner that is not stored
DanglingOwner ==
    \E f \in fwcs : \E r \in f.OwnerReferences : GetOwner(f.Namespace, r) = {}

\* C19 (as amended): every stored FirewallConfiguration carries an owner
\* reference, and right after a successful pass the FirewallConfiguration of
\* the Policy refers to that Policy, by name and UID, and to no other owner;
\* and whenever a FirewallConfiguration refers to a Policy that has been
\* deleted, eventually none does: it is deleted by the garbage collector, or
\* a pass for a Policy created afterwards under the same name has replaced
\* its owner reference together with its spec.
C19_OwnedAndCollected ==
    /\ [](/\ \A f \in fwcs : f.OwnerReferences # {}
          /\ PassSucceeded =>
                \A cfg \in GetPolicy(last.req) : \A f \in StoredFabric :
                   f.OwnerReferences =
                      {[Kind |-> "PeeringConnectivity", Name |-> cfg.Name, UID |-> cfg.UID]})
    /\ (DanglingOwner ~> ~DanglingOwner)

\* the FirewallConfiguration of a deleted Policy is still stored
C19_Witness ==
    /\ policies = {}
    /\ fwcs # {}
    /\ DanglingOwner

\* C19 (as stated): once the Policy a FirewallConfiguration was compiled
\* from is deleted, the FirewallConfiguration is eventually deleted.
C19_EventuallyDeleted ==
    (policies = {} /\ fwcs # {}) ~> (fwcs = {})

ClusterC2 == <<"c","2">>

\* C20: every stored FirewallConfiguration lies in namespace liqo-tenant-c1,
\* the namespace of the Policy of cluster c1, is named c1-security-fabric and
\* carries the labels category fabric and subcategory all-nodes, in every
\* state and so across passes, and there is never a second one; right after a
\* successful pass the FirewallConfiguration of that name and namespace is
\* stored; and for any cluster ID the name is <clusterID>-security-fabric, the
\* labels are the same, and the cluster ID taken from the tenant namespace
\* gives that namespace back.
C20_FixedIdentity ==
    /\ \A f \in fwcs :
          /\ f.Namespace = <<"l","i","q","o","-","t","e","n","a","n","t","-","c","1">>
          /\ f.Name = <<"c","1","-","s","e","c","u","r","i","t","y","-","f","a","b","r","i","c">>
          /\ f.Labels = [category |-> "fabric", subcategory |-> "all-nodes"]
    /\ Cardinality(fwcs) <= 1
    /\ PassSucceeded =>
          \A cfg \in GetPolicy(last.req) :
             \E f \in fwcs : f.Namespace = cfg.Namespace
    /\ \A clusterID \in {ClusterC1, ClusterC2} :
          /\ ForgeFabricResourceName(clusterID) =
                clusterID \o <<"-","s","e","c","u","r","i","t","y","-","f","a","b","r","i","c">>
          /\ ForgeFabricLabels(clusterID) = ForgeFabricLabels(ClusterC1)
          /\ ExtractClusterID(GetClusterNamespace(clusterID)) =
                [err |-> ErrNil, clusterID |-> clusterID]
          /\ GetClusterNamespace(clusterID) =
                <<"l","i","q","o","-","t","e","n","a","n","t","-">> \o clusterID

\* a second pass has rewritten the FirewallConfiguration after the rules
\* changed, under the same name, namespace and labels
C20_Witness ==
    /\ PassSucceeded
    /\ last.op = OperationResultUpdated
    /\ \E f \in StoredFabric : \E g \in last.before :
          /\ f.Spec # g.Spec
          /\ f.Name = g.Name
          /\ f.Namespace = g.Namespace
          /\ f.Labels = g.Labels

\* the direct call of the helper named call has returned
Called(call) == forged # Nil /\ Deref(forged).call = call

\* C26: for every non-empty cluster ID, hyphens included, GetClusterNamespace
\* returns "liqo-tenant-" followed by the ID, and ExtractClusterID of that
\* namespace succeeds and returns the ID.
C26_RoundTrip ==
    Called("GetClusterNamespace") =>
       /\ Deref(forged).namespace =
             <<"l","i","q","o","-","t","e","n","a","n","t","-">> \o Deref(forged).clusterID
       /\ Deref(forged).out = [err |-> ErrNil, clusterID |-> Deref(forged).clusterID]

\* the round trip of an ID that holds hyphens, one of them last, has returned
C26_Witness ==
    /\ Called("GetClusterNamespace")
    /\ Deref(forged).clusterID = <<"c","-","-">>
    /\ Deref(forged).out.clusterID = <<"c","-","-">>

\* the namespace starts with "liqo-tenant-"
HasTenantPrefix(namespace) ==
    /\ Len(namespace) >= 12
    /\ SubSeq(namespace, 1, 12) = <<"l","i","q","o","-","t","e","n","a","n","t","-">>

\* C27: ExtractClusterID returns an error and the empty identifier for every
\* namespace that does not start with "liqo-tenant-" (the empty string and
\* "liqo-tenant" among them) and for "liqo-tenant-" itself; whenever it
\* returns a nil error the identifier is not empty.
C27_MalformedNamespaceIsError ==
    (Called("ExtractClusterID") \/ Called("GetClusterNamespace")) =>
       LET namespace == Deref(forged).namespace
           out == Deref(forged).out
       IN  /\ (~HasTenantPrefix(namespace) \/ Len(namespace) = 12) =>
                 (out.err # ErrNil /\ out.clusterID = <<>>)
           /\ out.err = ErrNil => out.clusterID # <<>>

\* ExtractClusterID has returned an error for "liqo-tenant-"
C27_Witness ==
    /\ Called("ExtractClusterID")
    /\ Deref(forged).namespace = <<"l","i","q","o","-","t","e","n","a","n","t","-">>
    /\ Deref(forged).out.err # ErrNil
    /\ Deref(forged).out.clusterID = <<>>

\* the positions of the pods of a list that have an IP
WithIP(podList) == {i \in 1..Len(podList) : podList[i].PodIP # <<>>}

\* C28: ForgePodIpsSet(name, P) returns a Set named name of key type IP
\* address with one element per pod of P that has an IP and none for a pod
\* without one: the element count is the number of pods of P with an IP,
\* which no reordering of P changes, and the keys are the IPs of those pods.
C28_PodIpsSet ==
    Called("ForgePodIpsSet") =>
       LET podList == Deref(forged).podList
           out == Deref(forged).out
       IN  /\ out.Name = Deref(forged).setName
           /\ out.KeyType = "ipAddr"
           /\ Len(out.Elements) = Cardinality(WithIP(podList))
           /\ {out.Elements[i].Key : i \in 1..Len(out.Elements)} =
                 {podList[i].PodIP : i \in WithIP(podList)}
           /\ \A other \in Orders(Range(podList)) :
                 Len(ForgePodIpsSet(Deref(forged).setName, other).Elements) =
                    Len(out.Elements)

\* the Set of a list of three pods, the first of which has no IP, has two
\* elements
C28_Witness ==
    /\ Called("ForgePodIpsSet")
    /\ Len(Deref(forged).podList) = 3
    /\ Deref(forged).podList[1].PodIP = <<>>
    /\ Len(Deref(forged).out.Elements) = 2

\* the identity of the Policy of a cluster, spelled out
PolicyIdentityOf(clusterID) ==
    [Name |-> clusterID,
     Namespace |-> <<"l","i","q","o","-","t","e","n","a","n","t","-">> \o clusterID]

\* C23 (as amended): the pod mapper returns, for a pod with the local-pod
\* marker that is scheduled on a node, exactly the identity of the Policy of
\* the cluster that node is named after, whatever its other labels; for a pod
\* with the local-pod marker and no node yet, nothing, even when it carries
\* an origin-cluster label; for a pod without the marker and with an
\* origin-cluster label, exactly the identity of the Policy of that cluster;
\* for a pod with neither, nothing.
C23_PodMapping ==
    Called("podEnqueuer") =>
       LET pod == Deref(forged).obj
           out == Deref(forged).out
       IN  /\ (pod.LocalPod /\ pod.NodeName # <<>>) =>
                 out = <<PolicyIdentityOf(pod.NodeName)>>
           /\ (pod.LocalPod /\ pod.NodeName = <<>>) => out = <<>>
           /\ (~pod.LocalPod /\ pod.Origin # Nil) =>
                 out = <<PolicyIdentityOf(Deref(pod.Origin))>>
           /\ (~pod.LocalPod /\ pod.Origin = Nil) => out = <<>>

\* the mapper has returned nothing for a pod with the local-pod marker and
\* an origin-cluster label that has no node yet
C23_Witness ==
    /\ Called("podEnqueuer")
    /\ Deref(forged).obj.LocalPod
    /\ Deref(forged).obj.NodeName = <<>>
    /\ Deref(forged).obj.Origin = Ptr(ClusterC1)
    /\ Deref(forged).out = <<>>

\* C23 (as stated): the pod mapper returns exactly one identity, the Policy
\* of the cluster named by the pod's node, for every pod with the local-pod
\* marker; otherwise exactly the Policy of the origin cluster for a pod with
\* an origin-cluster label; otherwise nothing.
C23_ShadowPodOneIdentity ==
    Called("podEnqueuer") =>
       LET pod == Deref(forged).obj
           out == Deref(forged).out
       IN  /\ pod.LocalPod => out = <<PolicyIdentityOf(pod.NodeName)>>
           /\ (~pod.LocalPod /\ pod.Origin # Nil) =>
                 out = <<PolicyIdentityOf(Deref(pod.Origin))>>
           /\ (~pod.LocalPod /\ pod.Origin = Nil) => out = <<>>

\* C24: the Network mapper returns nothing for a Network of namespace liqo
\* and for one of a namespace that is not "liqo-tenant-" followed by a
\* non-empty cluster ID; for every other Network it returns exactly one
\* identity, named after the cluster ID that follows the prefix, in the
\* namespace of the Network.
C24_NetworkMapping ==
    Called("networkEnqueuer") =>
       LET namespace == Deref(forged).obj.Namespace
           out == Deref(forged).out
       IN  IF namespace = <<"l","i","q","o">> \/ ~HasTenantPrefix(namespace)
              \/ Len(namespace) = 12
           THEN out = <<>>
           ELSE /\ Len(out) = 1
                /\ out[1].Namespace = namespace
                /\ out[1].Name = SubSeq(namespace, 13, Len(namespace))

\* the mapper has returned the identity of the Policy of a cluster whose ID
\* holds a hyphen
C24_Witness ==
    /\ Called("networkEnqueuer")
    /\ Deref(forged).obj = PeerNetwork(<<"c","-","1">>)
    /\ Deref(forged).out = <<PolicyIdentityOf(<<"c","-","1">>)>>

IsCompileOutput(spec) ==
    \E cfg \in policies : \E out \in CompiledOf(cfg) :
       out.err = ErrNil /\ spec = Deref(out.spec)

\* C29: right after a successful Reconcile pass the FirewallConfiguration of
\* the Policy is stored and its spec is exactly one the compile of that
\* Policy returns, whatever the object held before; and every step leaves
\* each stored FirewallConfiguration either as it was or with a spec that is
\* as a whole the output of one compile of a stored Policy, so that no state
\* holds a spec put together from two compile outputs.
C29_WholeReplace ==
    /\ [](PassSucceeded =>
             /\ StoredFabric # {}
             /\ \A cfg \in GetPolicy(last.req) : \A f \in StoredFabric :
                   \E out \in CompiledOf(cfg) :
                      out.err = ErrNil /\ f.Spec = Deref(out.spec))
    /\ [][\A f \in fwcs' : f \in fwcs \/ IsCompileOutput(f.Spec)]_vars

\* a pass has replaced a spec holding the Sets privatesubnets and ns-ns1 by
\* one whose only Set is offloaded
C29_Witness ==
    /\ PassSucceeded
    /\ last.op = OperationResultUpdated
    /\ \E g \in last.before :
          SetNamesOf(g.Spec) = {SetNamePrivateSubnets, NamespaceSetName(NsOne)}
    /\ \E f \in StoredFabric : SetNamesOf(f.Spec) = {SetNameOffloaded}

\* a step of the cluster around the controller: a watched object changes
WatchedObjectChanges == pods' # pods \/ networks' # networks \/ nsos' # nsos
                           \/ \E p \in policies' : \A q \in policies : q.Spec # p.Spec

\* the stored FirewallConfiguration of every Policy that compiles holds the
\* spec the compile returns in the current state of the cluster
Synchronized ==
    \A cfg \in policies :
       (\E out \in CompiledOf(cfg) : out.err = ErrNil)
          => \E f \in GetFwc(cfg.Namespace,
                             ForgeFabricResourceName(ExtractClusterID(cfg.Namespace).clusterID)) :
                \E out \in CompiledOf(cfg) :
                   out.err = ErrNil /\ f.Spec = Deref(out.spec)

\* C21: once the watched objects stop changing, the stored
\* FirewallConfiguration of every Policy that compiles comes to hold, and
\* then keeps, the compile of that Policy against the cluster state.
C21_EventuallySynchronized ==
    []<><<WatchedObjectChanges>>_vars \/ <>[]Synchronized

\* the plain pod of the offloaded namespace ns1 has its IP, the Policy over
\* the pods of offloaded namespaces is Ready, the queue is empty, and the
\* stored vclocal Set lacks the IP of the pod
C21_Witness ==
    /\ queue = {}
    /\ NsOne \in nsos
    /\ NewPod(3, PodIPOf(3)) \in pods
    /\ \E cfg \in policies : cfg.Status.Ready.Status = "True"
    /\ ~Synchronized

\* the compile of the Policy succeeds in the current state of the cluster
Compiles(cfg) ==
    /\ CompiledOf(cfg) # {}
    /\ \A out \in CompiledOf(cfg) : out.err = ErrNil

\* a Policy bears Ready=False from a failed pass and its input is now valid
FailedAndCorrected ==
    \E cfg \in policies : cfg.Status.Ready.Status = "False" /\ Compiles(cfg)

\* C22: a pass over a stored Policy that does not leave it Ready=True
\* returns an error and its request is back in the work queue; and a Policy
\* that bears Ready=False while its input has become valid comes to bear
\* Ready=True, unless its input is made invalid again first.
C22_FailureIsRetried ==
    /\ []((last.result # "none" /\ last.found
             /\ \E cfg \in GetPolicy(last.req) : cfg.Status.Ready.Status # "True")
          => (last.err # ErrNil /\ last.req \in queue))
    /\ (FailedAndCorrected
          ~> (\A cfg \in policies :
                 cfg.Status.Ready.Status = "True" \/ ~Compiles(cfg)))

\* a pass failed on the missing Network of the peer's pod CIDR, the Network
\* has been created since, and the request of the Policy waits in the queue
C22_Witness ==
    /\ PeerNetwork(ClusterC1) \in networks
    /\ \E cfg \in policies :
          /\ cfg.Status.Ready = [Status |-> "False", Reason |-> ReasonFabricSyncFailed,
                                 Message |-> ErrNotFound]
          /\ Compiles(cfg)
          /\ NewRequest(cfg.Name, cfg.Namespace) \in queue

\* the positions of the fragments of a match list, in order
PositionsOf(match) == [k \in 1..Len(match) |-> Deref(match[k].IP).Position]

\* rules without parties, one for every action
AbsentPartyRules == {NewRule(action, Nil, Nil) : action \in {ActionAllow, ActionDeny, ""}}

C32_ChangeIsOnlyAnEvent ==
    PassSucceeded =>
       /\ last.op = OperationResultCreated <=> last.before = {}
       /\ last.op = OperationResultNone <=> last.before = StoredFabric
       /\ last.op \in {OperationResultCreated, OperationResultUpdated, OperationResultNone}
       /\ last.events = (IF last.op \in {OperationResultCreated, OperationResultUpdated}
                         THEN <<EventReasonSynced>> ELSE <<>>)
       /\ last.err = ErrNil
       /\ \A cfg \in GetPolicy(last.req) :
             /\ cfg.Status.Ready = [Status |-> "True", Reason |-> ReasonFabricSynced,
                                    Message |-> "FirewallConfiguration successfully synced"]
             /\ cfg.Status.ObservedGeneration = cfg.Generation

\* a successful pass over an edited Policy found the stored
\* FirewallConfiguration already equal to the compile and recorded no event
C32_Witness ==
    /\ PassSucceeded
    /\ last.op = OperationResultNone
    /\ last.events = <<>>
    /\ last.before # {}
    /\ \E cfg \in GetPolicy(last.req) :
          cfg.Generation = 2 /\ cfg.Status.ObservedGeneration = 2

\* C33 (as stated): a successful Reconcile pass that follows a successful
\* pass for the same Policy, no other step in between, reports the upsert
\* result none, records no event and leaves the FirewallConfigurations and
\* the Policies as they were.
C33_Idempotent ==
    [][(/\ PassSucceeded
        /\ last'.result = "ok"
        /\ last'.found
        /\ last'.req = last.req)
          => /\ last'.op = OperationResultNone
             /\ last'.events = <<>>
             /\ fwcs' = fwcs
             /\ policies' = policies]_vars

\* a successful pass over a Policy whose status already recorded its
\* generation has updated a FirewallConfiguration that held the same filter
\* rules and the same Sets in another order
C33_Witness ==
    /\ PassSucceeded
    /\ last.op = OperationResultUpdated
    /\ last.events = <<EventReasonSynced>>
    /\ \E g \in last.before : \E f \in StoredFabric :
          /\ FilterRulesOf(g.Spec) = FilterRulesOf(f.Spec)
          /\ Range(SetsOf(g.Spec)) = Range(SetsOf(f.Spec))
          /\ SetsOf(g.Spec) # SetsOf(f.Spec)
          /\ g.OwnerReferences = f.OwnerReferences

\* the spec holds the filter rules and the Sets, by name, that the rule list
\* compiles to
CompiledFromRules(spec, cfg, rules) ==
    \E out \in CompiledOf([cfg EXCEPT !.Spec.Rules = rules]) :
       /\ out.err = ErrNil
       /\ FilterRulesOf(spec) = FilterRulesOf(Deref(out.spec))
       /\ SetNamesOf(spec) = SetNamesOf(Deref(out.spec))

\* the stored FirewallConfiguration of the Policy
FabricOf(cfg) ==
    GetFwc(cfg.Namespace,
           ForgeFabricResourceName(ExtractClusterID(cfg.Namespace).clusterID))

\* C34 (as amended): in every state, whether or not a pass is under way, a
\* Policy that bears Ready=True with ObservedGeneration g has a stored
\* FirewallConfiguration whose filter rules and Sets are those the rules of
\* generation g, or of a later generation up to the current one, compile
\* to: the status is never ahead of the stored spec, so an edit of the
\* Policy between the Get and the status Update of a pass never leaves
\* Ready=True with the generation of the edit over a spec compiled from the
\* rules before it.
C34_StatusNeverAheadOfFabric ==
    \A cfg \in policies :
       cfg.Status.Ready.Status = "True" =>
          /\ cfg.Status.ObservedGeneration \in 1..cfg.Generation
          /\ \E f \in FabricOf(cfg) :
             \E g \in cfg.Status.ObservedGeneration..cfg.Generation :
                CompiledFromRules(f.Spec, cfg, RulesOfGeneration(g))

\* C34 (as stated): in every state a Policy that bears Ready=True with
\* ObservedGeneration g has a stored FirewallConfiguration compiled from the
\* rules of generation g.
C34_ReadyMeansCompiledFromObserved ==
    \A cfg \in policies :
       cfg.Status.Ready.Status = "True" =>
          \E f \in FabricOf(cfg) :
             CompiledFromRules(f.Spec, cfg,
                               RulesOfGeneration(cfg.Status.ObservedGeneration))

\* the upsert of a pass over the edited Policy has written the spec of the
\* second generation, the status Update is still to come, and the status
\* still shows Ready=True with the first generation
C34_Witness ==
    /\ pass # Nil
    /\ Deref(pass).step = "status"
    /\ Deref(pass).op = OperationResultUpdated
    /\ \E cfg \in policies :
          /\ cfg.Generation = 2
          /\ cfg.Status.Ready.Status = "True"
          /\ cfg.Status.ObservedGeneration = 1
          /\ \E f \in FabricOf(cfg) :
                /\ CompiledFromRules(f.Spec, cfg, RulesOfGeneration(2))
                /\ ~CompiledFromRules(f.Spec, cfg, RulesOfGeneration(1))

\* C35 (as stated): every stored FirewallConfiguration is owned by one
\* Policy, and right after a successful pass the FirewallConfiguration it
\* wrote is owned by the Policy of the pass alone and was written by no pass
\* of another Policy before.
C35_OneWriterPerFabric ==
    /\ \A f \in fwcs : Cardinality(f.OwnerReferences) <= 1
    /\ PassSucceeded =>
          /\ \A f \in StoredFabric : \A r \in f.OwnerReferences : r.Name = last.req.Name
          /\ \A g \in last.before : \A r \in g.OwnerReferences : r.Name = last.req.Name

\* the pass over Policy x has overwritten, with the compile of x, the
\* FirewallConfiguration the pass over Policy c1 had written, while both
\* Policies are stored and their specs compile to different things
C35_Witness ==
    /\ PassSucceeded
    /\ last.req = PolicyKeyOther
    /\ last.op = OperationResultUpdated
    /\ \E g \in last.before : \E f \in StoredFabric :
          /\ {r.Name : r \in g.OwnerReferences} = {PolicyKeyC1.Name}
          /\ {r.Name : r \in f.OwnerReferences} = {PolicyKeyC1.Name, PolicyKeyOther.Name}
          /\ g.Spec # f.Spec
          /\ f.Name = g.Name
    /\ \E cfg \in GetPolicy(PolicyKeyC1) : \A f \in StoredFabric :
          \A out \in CompiledOf(cfg) : out.err = ErrNil /\ f.Spec # Deref(out.spec)

PoliciesOfTenant(clusterID) ==
    {cfg \in policies : cfg.Namespace = GetClusterNamespace(clusterID)}

\* the FirewallConfiguration the passes over the Policies of that namespace
\* write
FabricOfTenant(clusterID) ==
    GetFwc(GetClusterNamespace(clusterID), ForgeFabricResourceName(clusterID))

\* a Policy is created or deleted
PolicyComesOrGoes ==
    {<<p.Namespace, p.Name, p.UID>> : p \in policies'}
        # {<<p.Namespace, p.Name, p.UID>> : p \in policies}

\* a labelled pod of cluster c1 or the peer Network of c1 changes
TenantObjectChanges ==
    \/ \E pod \in (pods' \ pods) \cup (pods \ pods') :
          pod.Origin = Ptr(ClusterC1) \/ (pod.LocalPod /\ pod.NodeName = ClusterC1)
    \/ (PeerNetwork(ClusterC1) \in networks') # (PeerNetwork(ClusterC1) \in networks)

\* C37: a change of a labelled pod or of the peer Network of cluster c1 puts
\* the request of every Policy stored in namespace liqo-tenant-c1 in the work
\* queue, whatever the name of the Policy; and once these objects stop
\* changing and Policies stop being created and deleted, the
\* FirewallConfiguration of every such Policy that compiles
\* comes to hold, and keeps, the compile against the cluster state.
C37_EveryPolicyOfTenantReached ==
    /\ [][TenantObjectChanges
             => \A cfg \in PoliciesOfTenant(ClusterC1) :
                   NewRequest(cfg.Name, cfg.Namespace) \in queue']_vars
    /\ ([]<><<TenantObjectChanges \/ PolicyComesOrGoes>>_vars
           \/ <>[](\A cfg \in PoliciesOfTenant(ClusterC1) :
                      Compiles(cfg) =>
                         \E f \in FabricOfTenant(ClusterC1) : \E out \in CompiledOf(cfg) :
                            f.Spec = Deref(out.spec)))

\* the Policy named x of namespace liqo-tenant-c1 is Ready, the pod that
\* consumer c1 offloaded has been created since, the queue holds no request,
\* and the stored offloaded Set lacks the IP of the pod
C37_Witness ==
    /\ queue = {}
    /\ NewPod(1, PodIPOf(1)) \in pods
    /\ \E cfg \in GetPolicy(PolicyKeyOther) :
          /\ cfg.Status.Ready.Status = "True"
          /\ Compiles(cfg)
          /\ \A f \in FabricOfTenant(ClusterC1) : \A out \in CompiledOf(cfg) :
                f.Spec # Deref(out.spec)
    /\ FabricOfTenant(ClusterC1) # {}

\* the pods without a Liqo label that the step creates, deletes or updates
ChangedPlainPods ==
    {pod \in (pods' \ pods) \cup (pods \ pods') : ~pod.LocalPod /\ pod.Origin = Nil}

\* the stored spec holds a Set filled from the pods of the namespace: the
\* vclocal Set when the namespace has a NamespaceOffloading, or the Set of a
\* namespace party
FilledFromNamespace(spec, namespace) ==
    \/ SetNameVcLocal \in SetNamesOf(spec) /\ namespace \in nsos
    \/ NamespaceSetName(namespace) \in SetNamesOf(spec)

\* C38: a change of a pod without Liqo label puts in the work queue the
\* request of every Policy whose stored FirewallConfiguration holds a Set
\* filled from the pod's namespace; and once such pods stop changing, the
\* Sets stored for every Policy that compiles come to be, and stay, the
\* Sets compiled from the current pods.
C38_PlainPodSetsStayCurrent ==
    /\ [][\A pod \in ChangedPlainPods : \A cfg \in policies :
             (\E f \in GetFwc(cfg.Namespace, ForgeFabricResourceName(cfg.Name)) :
                 FilledFromNamespace(f.Spec, pod.Namespace))
                => NewRequest(cfg.Name, cfg.Namespace) \in queue']_vars
    /\ ([]<><<ChangedPlainPods # {}>>_vars
           \/ <>[](\A cfg \in policies :
                      Compiles(cfg) =>
                         \E f \in GetFwc(cfg.Namespace, ForgeFabricResourceName(cfg.Name)) :
                            \E out \in CompiledOf(cfg) :
                               SetsOf(f.Spec) = SetsOf(Deref(out.spec))))

\* the Policy over the pods of namespace ns1 is Ready, the pod without
\* label has its IP, no request waits in the queue, and the stored Set
\* ns-ns1 lacks the IP of the pod
C38_Witness ==
    /\ queue = {}
    /\ NewPod(3, PodIPOf(3)) \in pods
    /\ \E cfg \in GetPolicy(PolicyKeyC1) :
          /\ cfg.Status.Ready.Status = "True"
          /\ \E f \in GetFwc(cfg.Namespace, ForgeFabricResourceName(cfg.Name)) :
                /\ NamespaceSetName(NsOne) \in SetNamesOf(f.Spec)
                /\ \A i \in 1..Len(SetsOf(f.Spec)) :
                      \A j \in 1..Len(SetsOf(f.Spec)[i].Elements) :
                         SetsOf(f.Spec)[i].Elements[j].Key # PodIPOf(3)
                /\ \A out \in CompiledOf(cfg) :
                      SetsOf(f.Spec) # SetsOf(Deref(out.spec))

\* the Network liqo/pod-cidr is created, deleted, or its CIDR changes
LocalNetworkChanges ==
    GetCurrentClusterPodCIDR' # GetCurrentClusterPodCIDR

ReferencesLocalCluster(cfg) ==
    Deref(GroupParty(ResourceGroupLocalCluster)) \in PartiesOf(cfg.Spec.Rules)

\* C39: a creation or change of the Network of the local pod CIDR puts the
\* request of every Policy with a local-cluster rule in the work queue; and
\* once that Network stops changing and Policies stop being created and
\* deleted, every such Policy that compiles comes
\* to be, and stays, Ready with a stored FirewallConfiguration that holds
\* the compile against the current CIDR.
C39_LocalCIDRFollowed ==
    /\ [][(LocalNetworkChanges /\ GetCurrentClusterPodCIDR'.err = ErrNil)
             => \A cfg \in policies :
                   ReferencesLocalCluster(cfg)
                      => NewRequest(cfg.Name, cfg.Namespace) \in queue']_vars
    /\ ([]<><<LocalNetworkChanges \/ PolicyComesOrGoes>>_vars
           \/ <>[](\A cfg \in policies :
                      (ReferencesLocalCluster(cfg) /\ Compiles(cfg)) =>
                         /\ cfg.Status.Ready.Status = "True"
                         /\ \E f \in FabricOfTenant(ClusterC1) :
                               \E out \in CompiledOf(cfg) :
                                  f.Spec = Deref(out.spec)))

\* the Policy with the local-cluster rule is Ready, the local pod CIDR has
\* moved since, no request waits in the queue, and the stored match still
\* carries the former CIDR
C39_Witness ==
    /\ queue = {}
    /\ GetCurrentClusterPodCIDR = [err |-> ErrNil, cidr |-> MovedCIDR]
    /\ \E cfg \in GetPolicy(PolicyKeyC1) :
          /\ cfg.Status.Ready.Status = "True"
          /\ ReferencesLocalCluster(cfg)
          /\ \E f \in FabricOfTenant(ClusterC1) :
                /\ \E i \in 1..Len(FilterRulesOf(f.Spec)) :
                      \E j \in 1..Len(FilterRulesOf(f.Spec)[i].Match) :
                         /\ FilterRulesOf(f.Spec)[i].Match[j].IP # Nil
                         /\ Deref(FilterRulesOf(f.Spec)[i].Match[j].IP).Value = LocalCIDR
                /\ \A out \in CompiledOf(cfg) : f.Spec # Deref(out.spec)

\* the indexes of the allow rules with the offloaded group as source, and as
\* destination
AllowFromOffloaded(rules) ==
    {i \in 1..Len(rules) : rules[i].Action = ActionAllow /\ IsOffloadedParty(rules[i].Source)}
AllowToOffloaded(rules) ==
    {i \in 1..Len(rules) :
        rules[i].Action = ActionAllow /\ IsOffloadedParty(rules[i].Destination)}

\* every rule has the offloaded group on one side and no party on the other
OffloadedToAnyOnly(rules) ==
    /\ rules # <<>>
    /\ \A i \in 1..Len(rules) :
          \/ IsOffloadedParty(rules[i].Source) /\ rules[i].Destination = Nil
          \/ IsOffloadedParty(rules[i].Destination) /\ rules[i].Source = Nil

\* C40: a call of ForgeProviderNetworkPolicySpec that returns a spec returns
\* one Egress entry per allow rule leaving the offloaded group and one
\* Ingress entry per allow rule entering it, none for a deny rule; and a call
\* on rules that pair the offloaded group with an absent party returns no
\* error and entries with the empty peer list, which matches any peer.
C40_NetworkPolicyFollowsActionsAndAbsence ==
    Called("ForgeProviderNetworkPolicySpec") =>
       LET call == Deref(forged)
           rules == call.cfg.Spec.Rules
       IN  /\ call.err = ErrNil =>
                /\ Len(Deref(call.spec).Egress) = Cardinality(AllowFromOffloaded(rules))
                /\ Len(Deref(call.spec).Ingress) = Cardinality(AllowToOffloaded(rules))
           /\ OffloadedToAnyOnly(rules) =>
                /\ call.err = ErrNil
                /\ \A i \in 1..Len(Deref(call.spec).Egress) :
                      Deref(call.spec).Egress[i].To = <<>>
                /\ \A i \in 1..Len(Deref(call.spec).Ingress) :
                      Deref(call.spec).Ingress[i].From = <<>>

\* the call on the one rule deny offloaded -> namespace ns1 has returned a
\* spec whose Egress allows the pods of ns1
C40_Witness ==
    /\ Called("ForgeProviderNetworkPolicySpec")
    /\ Deref(forged).cfg.Spec.Rules
          = <<NewRule(ActionDeny, GroupParty(ResourceGroupOffloaded), NamespaceParty(NsOne))>>
    /\ Deref(forged).err = ErrNil
    /\ Len(Deref(Deref(forged).spec).Egress) = 1
    /\ Deref(Deref(forged).spec).Egress[1].To[1].NamespaceSelector # Nil

====
